---- MODULE Spec2Model ----
(***************************************************************************)
(* Model of the USDC treasury's CCTP bridge workflow (scripts/cctp.py)     *)
(* and of its incremental on-chain scans (scripts/reconcile.py,            *)
(* scripts/treasury.py) over its SQLite store (scripts/db.py); of the      *)
(* reconciliation report, of the attestation poll loop and its backoff,    *)
(* and of the invoices (scripts/invoices.py) with the matching of incoming *)
(* transfers to them; of one store operation as a unit of work of          *)
(* db.get_db, of db.next_counter in two processes, and of two bridge       *)
(* handlers running at the same time.                                      *)
(*                                                                         *)
(* Every store call of a handler is a step of its own, so that a process   *)
(* killed between two calls leaves exactly what the calls before the kill  *)
(* committed (db.get_db commits per call).  The chains and the attestation *)
(* API are the environment: what they answer is chosen nondeterministically*)
(* among the answers they can give.                                        *)
(*                                                                         *)
(* Left out of a row: id, recipient, created_at, updated_at (set once or   *)
(* clock values, read by none of the modelled branches).                   *)
(***************************************************************************)
EXTENDS Integers, Sequences, FiniteSets, TLC

\* ------------------------------------------------------------------------
\* Bounds
\* ------------------------------------------------------------------------
MaxBurns == 1
MaxMintTx == 2
MaxKills == 1
MaxBlock == 3
MaxEvents == 2
MaxTxs == 2
MaxInvoices == 2
MaxLedger == 2
MaxCounter == 3
\* reconcile.DEFAULT_FIRST_RUN_LOOKBACK (10000), scaled to the block range
DEFAULT_FIRST_RUN_LOOKBACK == 2

\* ------------------------------------------------------------------------
\* Values
\* ------------------------------------------------------------------------
\* the processes that can run a bridge handler, and the one that runs them
\* when the operator starts one command at a time
Procs == {1, 2}
Operator == {1}
Chains == {"ethereum_sepolia", "base_sepolia"}
\* the (source, dest) pairs the operator asks for: one rejected, one accepted
Routes == {<<"ethereum_sepolia", "ethereum_sepolia">>,
           <<"ethereum_sepolia", "base_sepolia">>}
Amounts == {0, 1}
NULL == "NULL"
NoHash == <<>>
BurnHash(n) == <<"burn", n>>
MintHash(b, k) == <<"mint", b[2], k>>
BurnHashes == {BurnHash(n) : n \in 1..MaxBurns}
\* what the attestation API can put in the "message" of a complete entry:
\* nothing, fewer than 20 bytes, a well-formed message
MsgKinds == {NULL, "short", "full"}
NoAttestation == [message |-> NULL, attestation |-> NULL]

NoBridge ==
  [burn_tx_hash |-> NoHash, source_chain |-> NULL, dest_chain |-> NULL,
   amount_usdc |-> 0, message_hash |-> NULL, message_bytes |-> NULL,
   attestation |-> NULL, mint_tx_hash |-> NoHash, status |-> NULL]
NoArgs == [source_chain |-> NULL, dest_chain |-> NULL, amount_usdc |-> 0]
NoResult == [kind |-> "none", error |-> NULL, value |-> NoBridge]

VARIABLES
  cctp_bridges,   \* table cctp_bridges: burn_tx_hash -> row
  transactions,   \* table transactions: rows in insertion (id) order
  burned,         \* source chain: burn hashes of confirmed depositForBurn txs
  mintTxs,        \* destination chain: receipt status of each receiveMessage
                  \* tx sent for a burn, in submission order
  oracle,         \* attestation API: the complete entry of each burn, if any
  pc,             \* where each process is in its handler
  op,             \* the handler a process runs
  args,           \* bridge_usdc's arguments
  burn_tx_hash,   \* local burn_tx_hash
  bridge,         \* local bridge: the row complete_bridge/retry_mint loaded
  message_bytes,  \* local message_bytes
  attestation,    \* local attestation
  nonce_used,     \* what is_nonce_used returned to receive_message, if called
  receipt,        \* status of the receipt the process waits for
  mint_tx_hash,   \* hash of the receiveMessage tx the process sent
  result,         \* what the last handler of the process returned or raised
  polled,         \* the running (or last) handler queried the attestation API
  submitted,      \* the running (or last) handler sent a receiveMessage tx
  killBudget      \* kills the environment may still do (-1: any number)

\* the scanner (reconcile.fetch_onchain_usdc_transfers, treasury.watch_incoming)
\* for one (chain, wallet) pair
VARIABLES
  head,              \* the chain: w3.eth.block_number
  logs,              \* the chain: Transfer events from or to the wallet
  high_water_marks,  \* table high_water_marks: (chain, wallet) -> block_number
  scan_pc,           \* where the scanner is in its handler
  scan_op,           \* the handler it runs
  from_block,        \* argument from_block (NoBlock: not given)
  update_hwm,        \* argument update_hwm
  current_block,     \* local current_block
  scan_from,         \* local scan_from
  max_block_seen,    \* local max_block_seen (max_block in watch_incoming)
  transfers,         \* local transfers (all_incoming in watch_incoming)
  failed,            \* directions whose event query raised in this scan
  queried            \* directions for which an event filter was created

scan == <<head, logs, high_water_marks, scan_pc, scan_op, from_block,
          update_hwm, current_block, scan_from, max_block_seen, transfers,
          failed, queried>>

\* reconcile's report for one chain, from its two inputs
VARIABLES
  internal_txs,      \* db.get_all_transactions()
  onchain_txs,       \* what fetch_onchain_usdc_transfers returned
  report,            \* chain_report and report["summary"]
  report_pc          \* "start" before the classification, "done" after it

reporting == <<internal_txs, onchain_txs, report, report_pc>>

\* one call of cctp.wait_for_attestation_v2; times in tenths of a second,
\* delays in seconds
VARIABLES
  poll_pc,           \* where the call is
  poll_hash,         \* argument burn_tx_hash: given or empty
  max_wait,          \* argument max_wait, in seconds
  delay,             \* local delay
  attempt,           \* local attempt
  elapsed,           \* time.time() - start
  response,          \* what the last requests.get gave
  pre_delay,         \* delay when that request was sent
  wait_delay,        \* delay of the last sleep (0: none yet)
  prev_wait_delay,   \* delay of the sleep before it (0: none)
  sleep_time,        \* sleep_time of the last sleep
  limited,           \* a 429 was answered in this call
  checked_at,        \* elapsed when the loop condition last let an attempt start
  poll_result        \* how the call ended

polling == <<poll_pc, poll_hash, max_wait, delay, attempt, elapsed, response,
             pre_delay, wait_delay, prev_wait_delay, sleep_time, limited,
             checked_at, poll_result>>

\* the invoices, and the event watch_incoming's loop works on
VARIABLES
  invoices,          \* table invoices, in the order of their numbers
  incoming,          \* local incoming of watch_incoming's loop
  invoice_checks     \* chain_report["invoice_checks"] of the last reconcile

invoicing == <<invoices, incoming, invoice_checks>>

\* one store operation seen as the unit of work of db.get_db
VARIABLES
  unit,              \* the operation inside "with get_db() as conn"
  conn               \* the tables as its connection sees them, uncommitted

storing == <<unit, conn>>

\* the counters table and the processes that take a number from it
VARIABLES
  counters,          \* table counters: key -> value
  db_lock,           \* the process whose connection holds the write lock, or 0
  ctr_pc,            \* where each process is in create_invoice
  inv_num,           \* local inv_num, what next_counter returned
  ctr_view           \* the value as the process's open transaction has it

counting == <<counters, db_lock, ctr_pc, inv_num, ctr_view>>

\* what the bridge and fetch_onchain_usdc_transfers neither read nor write
apart == <<reporting, polling, invoicing, storing, counting>>

vars == <<cctp_bridges, transactions, burned, mintTxs, oracle, pc, op, args,
          burn_tx_hash, bridge, message_bytes, attestation, nonce_used,
          receipt, mint_tx_hash, result, polled, submitted, killBudget, scan, apart>>

store == <<cctp_bridges, transactions>>
chain == <<burned, mintTxs>>
locals == <<args, burn_tx_hash, bridge, message_bytes, attestation,
            nonce_used, receipt, mint_tx_hash>>
\* what the scanner leaves alone
bridgeState == <<burned, mintTxs, oracle, pc, op, args, burn_tx_hash, bridge,
                 message_bytes, attestation, nonce_used, receipt, mint_tx_hash,
                 result, polled, submitted, killBudget>>

\* ------------------------------------------------------------------------
\* db.py
\* ------------------------------------------------------------------------
_BRIDGE_COLUMNS ==
  {"source_chain", "dest_chain", "amount_usdc", "recipient", "message_hash",
   "message_bytes", "attestation", "mint_tx_hash", "status"}

\* INSERT OR REPLACE INTO cctp_bridges
insert_bridge(tbl, row) ==
  [h \in DOMAIN tbl \cup {row.burn_tx_hash} |->
     IF h = row.burn_tx_hash THEN row ELSE tbl[h]]

\* mutant: of the columns given, the statement sets status only
update_bridge_StatusOnly(tbl, h, updates) ==
  IF ~(DOMAIN updates \subseteq _BRIDGE_COLUMNS) \/ h \notin DOMAIN tbl
  THEN tbl
  ELSE [tbl EXCEPT ![h] =
          [c \in DOMAIN tbl[h] |->
             IF c \in DOMAIN updates /\ c = "status" THEN updates[c]
             ELSE tbl[h][c]]]

\* UPDATE cctp_bridges SET ... WHERE burn_tx_hash = ?  (one statement, one
\* commit; an unknown column raises before the statement runs)
update_bridge(tbl, h, updates) ==
  IF ~(DOMAIN updates \subseteq _BRIDGE_COLUMNS) \/ h \notin DOMAIN tbl
  THEN tbl
  ELSE [tbl EXCEPT ![h] =
          [c \in DOMAIN tbl[h] |->
             IF c \in DOMAIN updates THEN updates[c] ELSE tbl[h][c]]]

get_bridge(tbl, h) == IF h \in DOMAIN tbl THEN tbl[h] ELSE NoBridge

list_pending_bridges(tbl) == {h \in DOMAIN tbl : tbl[h].status # "completed"}

\* INSERT INTO transactions (no unique key but the autoincrement id)
insert_transaction(tbl, row) == Append(tbl, row)

BurnLeg(a, h) ==
  [tx_hash |-> h, chain |-> a.source_chain, type |-> "cctp_bridge",
   status |-> "burn_confirmed", cctp_burn_tx |-> NoHash]
MintLeg(row, mh) ==
  [tx_hash |-> mh, chain |-> row.dest_chain, type |-> "cctp_mint",
   status |-> "confirmed", cctp_burn_tx |-> row.burn_tx_hash]

\* ------------------------------------------------------------------------
\* The destination chain's MessageTransmitter
\* ------------------------------------------------------------------------
\* usedNonces(nonce of the burn's message) != 0: a receiveMessage succeeded
usedNonces(b) == \E i \in 1..Len(mintTxs[b]) : mintTxs[b][i] = 1

\* ------------------------------------------------------------------------
\* Initial state: empty store, nothing burned
\* ------------------------------------------------------------------------
ScanKey == <<"base_sepolia", "TREASURY_WALLET">>
Blocks == 0..MaxBlock
Directions == {"outgoing", "incoming"}
\* no block: from_block not given, no mark stored
NoBlock == -1
FromBlocks == {NoBlock} \cup Blocks

ScanInit ==
  /\ head = 0
  /\ logs = {}
  /\ high_water_marks = <<>>
  /\ scan_pc = "idle"
  /\ scan_op = NULL
  /\ from_block = NoBlock
  /\ update_hwm = TRUE
  /\ current_block = 0
  /\ scan_from = 0
  /\ max_block_seen = 0
  /\ transfers = {}
  /\ failed = {}
  /\ queried = {}

\* report = {..., "summary": {"matched": 0, "unmatched_internal": 0,
\* "unmatched_onchain": 0, ...}}, chain_report = {"matched_txs": [], ...}
NoReport ==
  [matched_txs |-> <<>>, unmatched_internal |-> <<>>,
   unmatched_onchain |-> <<>>,
   summary |-> [matched |-> 0, unmatched_internal |-> 0,
                unmatched_onchain |-> 0]]

ReportInit ==
  /\ internal_txs = <<>>
  /\ onchain_txs = <<>>
  /\ report = NoReport
  /\ report_pc = "start"

PollInit ==
  /\ poll_pc = "idle"
  /\ poll_hash = NULL
  /\ max_wait = 0
  /\ delay = 0
  /\ attempt = 0
  /\ elapsed = 0
  /\ response = NULL
  /\ pre_delay = 0
  /\ wait_delay = 0
  /\ prev_wait_delay = 0
  /\ sleep_time = 0
  /\ limited = FALSE
  /\ checked_at = 0
  /\ poll_result = NULL

\* _match_incoming_to_invoice's None
NoInvoice == 0

NoIncoming ==
  [tx_hash |-> NoHash, chain |-> NULL, from_address |-> NULL, amount_usdc |-> 0,
   already_recorded |-> FALSE, matched_invoice |-> NoInvoice]

\* no reconcile has reported: no check for any chain
NoChecks == [ck \in Chains |-> <<>>]

InvoiceInit ==
  /\ invoices = <<>>
  /\ incoming = NoIncoming
  /\ invoice_checks = NoChecks

\* no unit of work is open
NoUnit ==
  [pc |-> "idle", table |-> NULL, burn_tx_hash |-> NoHash,
   invoice_number |-> NoInvoice, updates |-> <<>>, error |-> NULL]
NoConn == [cctp_bridges |-> <<>>, invoices |-> <<>>]

StoreInit ==
  /\ unit = NoUnit
  /\ conn = NoConn

CounterProcs == {1, 2}

CounterInit ==
  /\ counters = <<>>
  /\ db_lock = 0
  /\ ctr_pc = [p \in CounterProcs |-> "idle"]
  /\ inv_num = [p \in CounterProcs |-> NoInvoice]
  /\ ctr_view = [p \in CounterProcs |-> 0]

ApartInit == ReportInit /\ PollInit /\ InvoiceInit /\ StoreInit /\ CounterInit

InitCommon ==
  /\ ScanInit
  /\ cctp_bridges = <<>>
  /\ transactions = <<>>
  /\ burned = {}
  /\ mintTxs = [b \in BurnHashes |-> <<>>]
  /\ oracle = [b \in BurnHashes |-> NoAttestation]
  /\ pc = [p \in Procs |-> "idle"]
  /\ op = [p \in Procs |-> NULL]
  /\ args = [p \in Procs |-> NoArgs]
  /\ burn_tx_hash = [p \in Procs |-> NoHash]
  /\ bridge = [p \in Procs |-> NoBridge]
  /\ message_bytes = [p \in Procs |-> NULL]
  /\ attestation = [p \in Procs |-> NULL]
  /\ nonce_used = [p \in Procs |-> NULL]
  /\ receipt = [p \in Procs |-> 0]
  /\ mint_tx_hash = [p \in Procs |-> NoHash]
  /\ result = [p \in Procs |-> NoResult]
  /\ polled = [p \in Procs |-> FALSE]
  /\ submitted = [p \in Procs |-> FALSE]

Init == InitCommon /\ killBudget = -1 /\ ApartInit

\* ------------------------------------------------------------------------
\* Leaving a handler
\* ------------------------------------------------------------------------
\* the handler returns or raises: main() prints the result and the process
\* exits (Exit), after which nothing of the invocation is left in memory
Done(p, kind, err, value) ==
  /\ pc' = [pc EXCEPT ![p] = "done"]
  /\ result' = [result EXCEPT ![p] = [kind |-> kind, error |-> err, value |-> value]]

Finish(p, kind, err, value) == Done(p, kind, err, value) /\ UNCHANGED locals

Return(p, value) == Finish(p, "ok", NULL, value)

Raise(p, err) == Finish(p, "error", err, NoBridge)

Goto(p, label) == pc' = [pc EXCEPT ![p] = label]

Begin(p, handler) ==
  /\ pc[p] = "idle"
  /\ op' = [op EXCEPT ![p] = handler]

Gone(p) ==
  /\ pc' = [pc EXCEPT ![p] = "idle"]
  /\ op' = [op EXCEPT ![p] = NULL]
  /\ args' = [args EXCEPT ![p] = NoArgs]
  /\ burn_tx_hash' = [burn_tx_hash EXCEPT ![p] = NoHash]
  /\ bridge' = [bridge EXCEPT ![p] = NoBridge]
  /\ message_bytes' = [message_bytes EXCEPT ![p] = NULL]
  /\ attestation' = [attestation EXCEPT ![p] = NULL]
  /\ nonce_used' = [nonce_used EXCEPT ![p] = NULL]
  /\ receipt' = [receipt EXCEPT ![p] = 0]
  /\ mint_tx_hash' = [mint_tx_hash EXCEPT ![p] = NoHash]
  /\ result' = [result EXCEPT ![p] = NoResult]
  /\ polled' = [polled EXCEPT ![p] = FALSE]
  /\ submitted' = [submitted EXCEPT ![p] = FALSE]

Exit(p) ==
  /\ pc[p] = "done"
  /\ Gone(p)
  /\ UNCHANGED <<store, chain, oracle, killBudget, scan, apart>>

\* ------------------------------------------------------------------------
\* cctp.bridge_usdc
\*
\* Actions that wait on the network take F, the set of answers to "does the
\* environment fail this call": BOOLEAN where it may, {FALSE} where the
\* premises of a liveness claim say it does not.
\* ------------------------------------------------------------------------
\* the result dict bridge_usdc builds and returns
BridgeResult(p, status, mh) ==
  [bridge[p] EXCEPT !.status = status, !.mint_tx_hash = mh]

\* entry: the source == dest check, then the row the call will insert
BridgeUsdc(p) ==
  \E route \in Routes, amt \in Amounts :
    LET src == route[1]
        dst == route[2] IN
    /\ Begin(p, "bridge_usdc")
    /\ args' = [args EXCEPT ![p] =
         [source_chain |-> src, dest_chain |-> dst, amount_usdc |-> amt]]
    /\ IF src = dst
       THEN Done(p, "error", "ValueError", NoBridge)
       ELSE Goto(p, "balance") /\ UNCHANGED result
    /\ UNCHANGED <<store, chain, oracle, burn_tx_hash, bridge, message_bytes,
                   attestation, nonce_used, receipt, mint_tx_hash, polled,
                   submitted, killBudget, scan, apart>>

\* balanceOf < amount_raw raises; then allowance < amount_raw decides whether
\* an approval is sent (neither comparison can hold for an amount of 0)
CheckBalance(p) ==
  /\ pc[p] = "balance"
  /\ \E balance_ok \in BOOLEAN, allowance_ok \in BOOLEAN :
       /\ args[p].amount_usdc = 0 => balance_ok /\ allowance_ok
       /\ IF ~balance_ok
          THEN Raise(p, "InsufficientBalance")
          ELSE /\ Goto(p, IF allowance_ok THEN "burn" ELSE "approve")
               /\ UNCHANGED <<locals, result>>
  /\ UNCHANGED <<store, chain, oracle, op, polled, submitted, killBudget, scan, apart>>

\* approve(token_messenger, MAX_UINT256), wait for the receipt
Approve(p, F) ==
  /\ pc[p] = "approve"
  /\ \E status \in {0, 1}, timeout \in F :
       IF timeout THEN Raise(p, "TimeExhausted")
       ELSE IF status # 1 THEN Raise(p, "ApprovalFailed")
       ELSE Goto(p, "burn") /\ UNCHANGED <<locals, result>>
  /\ UNCHANGED <<store, chain, oracle, op, polled, submitted, killBudget, scan, apart>>

\* send_raw_transaction(depositForBurn): the source chain mines the burn;
\* TokenMessenger reverts a burn of amount 0
BurnSubmit(p) ==
  /\ pc[p] = "burn"
  /\ \E status \in {0, 1} :
       /\ args[p].amount_usdc = 0 => status = 0
       /\ status = 1 => Cardinality(burned) < MaxBurns
       /\ receipt' = [receipt EXCEPT ![p] = status]
       /\ IF status = 1
          THEN LET h == BurnHash(Cardinality(burned) + 1) IN
               /\ burned' = burned \cup {h}
               /\ burn_tx_hash' = [burn_tx_hash EXCEPT ![p] = h]
          ELSE UNCHANGED <<burned, burn_tx_hash>>
  /\ Goto(p, "burn_receipt")
  /\ UNCHANGED <<store, mintTxs, oracle, op, args, bridge, message_bytes,
                 attestation, nonce_used, mint_tx_hash, result, polled,
                 submitted, killBudget, scan, apart>>

\* mutant: the status of the burn receipt is not looked at
burn_receipt_ok_Always(status) == TRUE

\* burn_receipt.status != 1 raises
burn_receipt_ok(status) == status = 1

\* wait_for_transaction_receipt(tx_hash, timeout=120), then the status check
BurnReceipt(p, F) ==
  /\ pc[p] = "burn_receipt"
  /\ \E timeout \in F :
       IF timeout THEN Raise(p, "TimeExhausted")
       ELSE IF ~burn_receipt_ok(receipt[p]) THEN Raise(p, "BurnFailed")
       ELSE Goto(p, "insert_bridge") /\ UNCHANGED <<locals, result>>
  /\ UNCHANGED <<store, chain, oracle, op, polled, submitted, killBudget, scan, apart>>

\* the row bridge_usdc stores once the burn receipt says success
bridge_record(a, h) ==
  [NoBridge EXCEPT !.burn_tx_hash = h,
                   !.source_chain = a.source_chain,
                   !.dest_chain = a.dest_chain,
                   !.amount_usdc = a.amount_usdc,
                   !.status = "burn_confirmed"]

\* db.insert_bridge(bridge_record)
InsertBridge(p) ==
  /\ pc[p] = "insert_bridge"
  /\ cctp_bridges' = insert_bridge(cctp_bridges,
                        bridge_record(args[p], burn_tx_hash[p]))
  /\ bridge' = [bridge EXCEPT ![p] = bridge_record(args[p], burn_tx_hash[p])]
  /\ Goto(p, "record_burn")
  /\ UNCHANGED <<transactions, chain, oracle, op, args, burn_tx_hash,
                 message_bytes, attestation, nonce_used, receipt, mint_tx_hash,
                 result, polled, submitted, killBudget, scan, apart>>

\* record_transaction({... "type": "cctp_bridge" ...})
RecordBurn(p) ==
  /\ pc[p] = "record_burn"
  /\ transactions' = insert_transaction(transactions, BurnLeg(args[p], burn_tx_hash[p]))
  /\ Goto(p, "poll")
  /\ UNCHANGED <<cctp_bridges, chain, oracle, op, locals, result, polled,
                 submitted, killBudget, scan, apart>>

\* ------------------------------------------------------------------------
\* Attestation polling, as bridge_usdc and complete_bridge use it
\* ------------------------------------------------------------------------
\* wait_for_attestation_v2: the first complete entry seen within max_wait,
\* (None, None) when there is none
wait_for_attestation_v2(b) ==
  IF oracle[b].attestation # NULL \/ oracle[b].message # NULL
  THEN <<oracle[b].message, oracle[b].attestation>>
  ELSE <<NULL, NULL>>

\* mutant: a timed-out bridge is marked failed
timeout_update_Failed == [status |-> "failed"]

\* the columns complete_bridge writes when neither API has an attestation
timeout_update == [status |-> "awaiting_attestation"]

\* mutant: the attestation is stored under the final status
attestation_update_WrongStatus(att, msg) ==
  [attestation |-> att, message_bytes |-> msg, status |-> "completed"]

\* mutant: the message is not stored with the attestation
attestation_update_NoMessage(att, msg) ==
  [attestation |-> att, status |-> "attestation_received"]

\* the columns written once an attestation is in hand
attestation_update(att, msg) ==
  [attestation |-> att, message_bytes |-> msg, status |-> "attestation_received"]

\* mutant: the mint hash is not stored with the final status
mint_update_StatusOnly(mh) == [status |-> "completed"]

\* the columns written once the mint receipt says success
mint_update(mh) == [mint_tx_hash |-> mh, status |-> "completed"]

Poll(p) ==
  /\ pc[p] = "poll"
  /\ polled' = [polled EXCEPT ![p] = TRUE]
  /\ LET b == burn_tx_hash[p]
         v2 == wait_for_attestation_v2(b)
     IN \E v1 \in {NULL, "att"} :
        LET use_v1 == /\ op[p] = "complete_bridge"
                      /\ v2[2] = NULL
                      /\ bridge[p].message_hash # NULL
            att == IF use_v1 THEN v1 ELSE v2[2]
            msg == IF use_v1 THEN bridge[p].message_bytes ELSE v2[1]
        IN /\ ~use_v1 => v1 = NULL
           /\ IF att # NULL
              THEN /\ attestation' = [attestation EXCEPT ![p] = att]
                   /\ message_bytes' = [message_bytes EXCEPT ![p] = msg]
                   /\ Goto(p, "store_attestation")
                   /\ UNCHANGED <<cctp_bridges, result>>
              ELSE /\ UNCHANGED <<attestation, message_bytes>>
                   /\ IF op[p] = "bridge_usdc"
                      THEN /\ Done(p, "ok", NULL,
                                   BridgeResult(p, "awaiting_attestation", NoHash))
                           /\ UNCHANGED cctp_bridges
                      ELSE /\ cctp_bridges' = update_bridge(cctp_bridges, b,
                                                 timeout_update)
                           /\ Done(p, "error", "AttestationTimeout", NoBridge)
  /\ UNCHANGED <<args, burn_tx_hash, bridge, nonce_used, receipt, mint_tx_hash>>
  /\ UNCHANGED <<transactions, chain, oracle, op, submitted, killBudget, scan, apart>>

\* db.update_bridge(burn_tx_hash, {attestation, message_bytes, status})
StoreAttestation(p) ==
  /\ pc[p] = "store_attestation"
  /\ cctp_bridges' = update_bridge(cctp_bridges, burn_tx_hash[p],
                        attestation_update(attestation[p], message_bytes[p]))
  /\ Goto(p, "nonce_check")
  /\ UNCHANGED <<transactions, chain, oracle, op, locals, result, polled,
                 submitted, killBudget, scan, apart>>

\* ------------------------------------------------------------------------
\* cctp.receive_message and what its three callers do with the outcome
\* ------------------------------------------------------------------------
\* bridge_usdc catches the exception and returns; the other two let it out
MintFailed(p, err) ==
  IF op[p] = "bridge_usdc"
  THEN Finish(p, "ok", err, BridgeResult(p, "attestation_received", NoHash))
  ELSE Raise(p, err)

\* _extract_nonce_from_message: len(None) raises, under 20 bytes gives None
_extract_nonce_from_message(msg) == IF msg = "short" THEN NULL ELSE msg

\* is_nonce_used: usedNonces(...) != 0, and False when the call raises
is_nonce_used(b, call_raises) == IF call_raises THEN FALSE ELSE usedNonces(b)

\* mutant: the answer of the nonce query is ignored
nonce_guard_Never(nonce_hash, used) == FALSE

\* the guard of receive_message: raise instead of sending
nonce_guard(nonce_hash, used) == nonce_hash # NULL /\ used

NonceCheck(p, F) ==
  /\ pc[p] = "nonce_check"
  /\ \E call_raises \in F :
       IF message_bytes[p] = NULL
       THEN ~call_raises /\ MintFailed(p, "TypeError")
       ELSE LET nonce_hash == _extract_nonce_from_message(message_bytes[p])
                used == is_nonce_used(burn_tx_hash[p], call_raises)
            IN /\ nonce_hash = NULL => ~call_raises
               /\ IF nonce_guard(nonce_hash, used)
                  THEN Done(p, IF op[p] = "bridge_usdc" THEN "ok" ELSE "error",
                            "AlreadyCompleted",
                            IF op[p] = "bridge_usdc"
                            THEN BridgeResult(p, "attestation_received", NoHash)
                            ELSE NoBridge)
                  ELSE Goto(p, "mint") /\ UNCHANGED result
               /\ nonce_used' = [nonce_used EXCEPT ![p] =
                     IF nonce_hash = NULL THEN NULL
                     ELSE IF used THEN "true" ELSE "false"]
               /\ UNCHANGED <<args, burn_tx_hash, bridge, message_bytes,
                              attestation, receipt, mint_tx_hash>>
  /\ UNCHANGED <<store, chain, oracle, op, polled, submitted, killBudget, scan, apart>>

\* send_raw_transaction(receiveMessage): the destination chain mines it; it
\* can succeed only for a well-formed message whose nonce is unused
MintSubmit(p, F) ==
  /\ pc[p] = "mint"
  /\ LET b == burn_tx_hash[p]
         can_succeed == message_bytes[p] = "full" /\ ~usedNonces(b)
     IN /\ Len(mintTxs[b]) < MaxMintTx
        /\ \E status \in {0, 1} :
             /\ status = 1 => can_succeed
             /\ status = 0 => ~can_succeed \/ TRUE \in F
             /\ mintTxs' = [mintTxs EXCEPT ![b] = Append(@, status)]
             /\ receipt' = [receipt EXCEPT ![p] = status]
        /\ mint_tx_hash' = [mint_tx_hash EXCEPT ![p] = MintHash(b, Len(mintTxs[b]) + 1)]
  /\ submitted' = [submitted EXCEPT ![p] = TRUE]
  /\ Goto(p, "mint_receipt")
  /\ UNCHANGED <<store, burned, oracle, op, args, burn_tx_hash, bridge,
                 message_bytes, attestation, nonce_used, result, polled,
                 killBudget, scan, apart>>

\* wait_for_transaction_receipt(tx_hash, timeout=120), then the status check
MintReceipt(p, F) ==
  /\ pc[p] = "mint_receipt"
  /\ \E timeout \in F :
       IF timeout THEN MintFailed(p, "TimeExhausted")
       ELSE IF receipt[p] # 1 THEN MintFailed(p, "MintFailed")
       ELSE Goto(p, "store_mint") /\ UNCHANGED <<locals, result>>
  /\ UNCHANGED <<store, chain, oracle, op, polled, submitted, killBudget, scan, apart>>

\* db.update_bridge(burn_tx_hash, {mint_tx_hash, status: completed})
StoreMint(p) ==
  /\ pc[p] = "store_mint"
  /\ cctp_bridges' = update_bridge(cctp_bridges, burn_tx_hash[p],
                        mint_update(mint_tx_hash[p]))
  /\ Goto(p, "record_mint")
  /\ UNCHANGED <<transactions, chain, oracle, op, locals, result, polled,
                 submitted, killBudget, scan, apart>>

\* record_transaction({... "type": "cctp_mint" ...}), then the return
RecordMint(p) ==
  /\ pc[p] = "record_mint"
  /\ transactions' = insert_transaction(transactions,
                        MintLeg(bridge[p], mint_tx_hash[p]))
  /\ Return(p, BridgeResult(p, "completed", mint_tx_hash[p]))
  /\ UNCHANGED <<cctp_bridges, chain, oracle, op, polled, submitted,
                 killBudget, scan, apart>>

\* ------------------------------------------------------------------------
\* cctp.complete_bridge and cctp.retry_mint: entry up to the first wait
\* ------------------------------------------------------------------------
\* mutant: no early return for a completed row
complete_bridge_entry_NoCompletedCheck(row) ==
  IF row = NoBridge THEN "NotFound"
  ELSE IF row.attestation = NULL THEN "poll"
  ELSE "nonce_check"

\* what complete_bridge does with the row it loaded
complete_bridge_entry(row) ==
  IF row = NoBridge THEN "NotFound"
  ELSE IF row.status = "completed" THEN "return"
  ELSE IF row.attestation = NULL THEN "poll"
  ELSE "nonce_check"

\* mutant: retry_mint polls when nothing is stored, as complete_bridge does
retry_mint_entry_Polls(row) ==
  IF row = NoBridge THEN "NotFound"
  ELSE IF row.status = "completed" THEN "return"
  ELSE IF row.attestation = NULL \/ row.message_bytes = NULL THEN "poll"
  ELSE "nonce_check"

\* mutant: retry_mint goes to the mint with whatever the row holds
retry_mint_entry_NoAttestationCheck(row) ==
  IF row = NoBridge THEN "NotFound"
  ELSE IF row.status = "completed" THEN "return"
  ELSE "nonce_check"

\* what retry_mint does with the row it loaded
retry_mint_entry(row) ==
  IF row = NoBridge THEN "NotFound"
  ELSE IF row.status = "completed" THEN "return"
  ELSE IF row.attestation = NULL \/ row.message_bytes = NULL
       THEN "NoStoredAttestation"
  ELSE "nonce_check"

Enter(p, h, row, entry) ==
  /\ burn_tx_hash' = [burn_tx_hash EXCEPT ![p] = h]
  /\ bridge' = [bridge EXCEPT ![p] = row]
  /\ attestation' = [attestation EXCEPT ![p] = row.attestation]
  /\ message_bytes' = [message_bytes EXCEPT ![p] = row.message_bytes]
  /\ IF entry = "return" THEN Done(p, "ok", NULL, row)
     ELSE IF entry \in {"NotFound", "NoStoredAttestation"}
          THEN Done(p, "error", entry, NoBridge)
     ELSE Goto(p, entry) /\ UNCHANGED result
  /\ UNCHANGED <<store, chain, oracle, args, nonce_used, receipt,
                 mint_tx_hash, polled, submitted, killBudget, scan, apart>>

CompleteBridgeOn(p, h) ==
  /\ Begin(p, "complete_bridge")
  /\ Enter(p, h, get_bridge(cctp_bridges, h),
           complete_bridge_entry(get_bridge(cctp_bridges, h)))

CompleteBridge(p) == \E h \in BurnHashes : CompleteBridgeOn(p, h)

RetryMint(p) ==
  \E h \in BurnHashes :
    /\ Begin(p, "retry_mint")
    /\ Enter(p, h, get_bridge(cctp_bridges, h),
             retry_mint_entry(get_bridge(cctp_bridges, h)))

\* ------------------------------------------------------------------------
\* Environment
\* ------------------------------------------------------------------------
\* the OS process is killed (or the host restarts) wherever it is
Kill(p) ==
  /\ pc[p] \notin {"idle", "done"}
  /\ killBudget # 0
  /\ killBudget' = IF killBudget > 0 THEN killBudget - 1 ELSE killBudget
  /\ Gone(p)
  /\ UNCHANGED <<store, chain, oracle, scan, apart>>

\* the attestation API starts to answer "complete" for a confirmed burn
OracleComplete(M) ==
  \E b \in burned, m \in M :
    /\ oracle[b] = NoAttestation
    /\ oracle' = [oracle EXCEPT ![b] = [message |-> m, attestation |-> "att"]]
    /\ UNCHANGED <<store, chain, pc, op, locals, result, polled, submitted,
                   killBudget, scan, apart>>

\* ------------------------------------------------------------------------
\* One operator, one handler at a time; the environment may fail any call
\* ------------------------------------------------------------------------
Next ==
  \/ \E p \in Operator :
       \/ BridgeUsdc(p)
       \/ CheckBalance(p)
       \/ Approve(p, BOOLEAN)
       \/ BurnSubmit(p)
       \/ BurnReceipt(p, BOOLEAN)
       \/ InsertBridge(p)
       \/ RecordBurn(p)
       \/ Poll(p)
       \/ StoreAttestation(p)
       \/ NonceCheck(p, BOOLEAN)
       \/ MintSubmit(p, BOOLEAN)
       \/ MintReceipt(p, BOOLEAN)
       \/ StoreMint(p)
       \/ RecordMint(p)
       \/ CompleteBridge(p)
       \/ RetryMint(p)
       \/ Exit(p)
       \/ Kill(p)
  \/ OracleComplete(MsgKinds)

Spec == Init /\ [][Next]_vars

\* the same handlers when commands are started while another runs: each is
\* its own process, with the store and the chains in common
NextPair ==
  \/ \E p \in Procs :
       \/ BridgeUsdc(p)
       \/ CheckBalance(p)
       \/ Approve(p, BOOLEAN)
       \/ BurnSubmit(p)
       \/ BurnReceipt(p, BOOLEAN)
       \/ InsertBridge(p)
       \/ RecordBurn(p)
       \/ Poll(p)
       \/ StoreAttestation(p)
       \/ NonceCheck(p, BOOLEAN)
       \/ MintSubmit(p, BOOLEAN)
       \/ MintReceipt(p, BOOLEAN)
       \/ StoreMint(p)
       \/ RecordMint(p)
       \/ CompleteBridge(p)
       \/ RetryMint(p)
       \/ Exit(p)
       \/ Kill(p)
  \/ OracleComplete(MsgKinds)

SpecPair == Init /\ [][NextPair]_vars

TypeOK ==
  /\ DOMAIN cctp_bridges \subseteq BurnHashes
  /\ burned \subseteq BurnHashes
  /\ \A p \in Procs : pc[p] \in
       {"idle", "balance", "approve", "burn", "burn_receipt", "insert_bridge",
        "record_burn", "poll", "store_attestation", "nonce_check", "mint",
        "mint_receipt", "store_mint", "record_mint", "done"}

\* ------------------------------------------------------------------------
\* Resumption under the premises of the liveness claim: the attestation API
\* comes to answer with a well-formed message, no call fails on its own, a
\* mint that can succeed does, a started handler runs on unless the process
\* is killed (at most MaxKills times), and the operator keeps invoking
\* complete_bridge on every pending bridge
\* ------------------------------------------------------------------------
InitLive == InitCommon /\ killBudget = MaxKills /\ ApartInit

Step(p) ==
  \/ CheckBalance(p)
  \/ Approve(p, {FALSE})
  \/ BurnSubmit(p)
  \/ BurnReceipt(p, {FALSE})
  \/ InsertBridge(p)
  \/ RecordBurn(p)
  \/ Poll(p)
  \/ StoreAttestation(p)
  \/ NonceCheck(p, {FALSE})
  \/ MintSubmit(p, {FALSE})
  \/ MintReceipt(p, {FALSE})
  \/ StoreMint(p)
  \/ RecordMint(p)
  \/ Exit(p)

Resume(p, h) ==
  /\ h \in list_pending_bridges(cctp_bridges)
  /\ CompleteBridgeOn(p, h)

NextLive ==
  \/ \E p \in Operator :
       \/ BridgeUsdc(p)
       \/ CompleteBridge(p)
       \/ RetryMint(p)
       \/ Step(p)
       \/ Kill(p)
  \/ OracleComplete({"full"})

SpecLive ==
  /\ InitLive
  /\ [][NextLive]_vars
  /\ \A p \in Operator : WF_vars(Step(p))
  /\ \A p \in Operator : \A h \in BurnHashes : SF_vars(Resume(p, h))
  /\ WF_vars(OracleComplete({"full"}))

\* ------------------------------------------------------------------------
\* db.py: high_water_marks
\* ------------------------------------------------------------------------
\* SELECT block_number ... ; None when the pair has no row
get_high_water_mark(tbl, k) == IF k \in DOMAIN tbl THEN tbl[k] ELSE NoBlock

\* INSERT ... ON CONFLICT(chain, wallet) DO UPDATE SET block_number = ...
set_high_water_mark(tbl, k, block_number) ==
  [x \in DOMAIN tbl \cup {k} |-> IF x = k THEN block_number ELSE tbl[x]]

\* ------------------------------------------------------------------------
\* The chain as the scanner sees it
\* ------------------------------------------------------------------------
Max(S) == CHOOSE x \in S : \A y \in S : y <= x
Min(S) == CHOOSE x \in S : \A y \in S : x <= y

\* the wallet's payer as the chain reports it, and another sender
Senders == {"0xAbC", "0xDeF"}
\* amounts in units of 0.005 USDC
TransferAmounts == {2, 3, 8}

Transfer(b, d) ==
  [tx_hash |-> <<"transfer", b, d>>, direction |-> d, block_number |-> b,
   from_address |-> "0xAbC", amount_usdc |-> 4]

\* usdc.events.Transfer.create_filter(from_block=start, ...).get_all_entries():
\* the events of one direction from start up to the latest block
get_all_entries(start, direction) ==
  {e \in logs : e.direction = direction /\ e.block_number >= start}

\* the first k of them, in block order
FirstEntries(entries, k) ==
  {e \in entries :
     Cardinality({f \in entries : f.block_number < e.block_number}) < k}

\* a new block is mined, with or without transfers of the wallet in it
Mine ==
  /\ head < MaxBlock
  /\ \E D \in SUBSET Directions :
       /\ Cardinality(logs) + Cardinality(D) <= MaxEvents
       /\ logs' = logs \cup {Transfer(head + 1, d) : d \in D}
  /\ head' = head + 1
  /\ UNCHANGED <<high_water_marks, scan_pc, scan_op, from_block, update_hwm,
                 current_block, scan_from, max_block_seen, transfers, failed,
                 queried>>
  /\ UNCHANGED <<cctp_bridges, transactions, bridgeState, apart>>

\* ------------------------------------------------------------------------
\* reconcile.fetch_onchain_usdc_transfers (reconcile and the command line
\* leave update_hwm at its default, True)
\* ------------------------------------------------------------------------
\* mutant: a default scan starts at the mark itself
scan_start_AtMark(fb, hwm, current) ==
  IF fb # NoBlock THEN fb
  ELSE IF hwm # NoBlock THEN hwm
  ELSE Max({0, current - DEFAULT_FIRST_RUN_LOOKBACK})

\* mutant: a first run starts at the current block
scan_start_NoLookback(fb, hwm, current) ==
  IF fb # NoBlock THEN fb
  ELSE IF hwm # NoBlock THEN hwm + 1
  ELSE current

\* scan_from, from the argument, the stored mark and the current block
scan_start(fb, hwm, current) ==
  IF fb # NoBlock THEN fb
  ELSE IF hwm # NoBlock THEN hwm + 1
  ELSE Max({0, current - DEFAULT_FIRST_RUN_LOOKBACK})

\* mutant: the mark is set to the highest block seen
hwm_update_SeenOnly(seen, current) == seen

\* mutant: the mark is set to the block read at the start
hwm_update_HeadOnly(seen, current) == current

\* the block number the scan stores
hwm_update(seen, current) == Max({seen, current})

FetchBegin ==
  \E fb \in FromBlocks, upd \in BOOLEAN :
    LET start == scan_start(fb, get_high_water_mark(high_water_marks, ScanKey),
                            head) IN
    /\ scan_pc = "idle"
    /\ scan_op' = "fetch"
    /\ from_block' = fb
    /\ update_hwm' = upd
    /\ current_block' = head
    /\ scan_from' = start
    /\ max_block_seen' = IF start > head THEN max_block_seen ELSE start
    /\ scan_pc' = IF start > head THEN "done" ELSE "outgoing"
    /\ UNCHANGED <<head, logs, high_water_marks, transfers, failed, queried>>
    /\ UNCHANGED <<cctp_bridges, transactions, bridgeState, apart>>

\* one try block: create the filter, then get_block for each entry; an
\* exception ends the loop with the entries before it kept
FetchEvents(direction, F) ==
  \E fail \in F :
    LET entries == get_all_entries(scan_from, direction)
        n == Cardinality(entries) IN
    \E k \in 0..n :
      /\ ~fail => k = n
      /\ fail => (k < n \/ n = 0)
      /\ transfers' = transfers \cup FirstEntries(entries, k)
      /\ max_block_seen' =
           Max({max_block_seen}
               \cup {e.block_number : e \in FirstEntries(entries, k)})
      /\ failed' = IF fail THEN failed \cup {direction} ELSE failed
      /\ queried' = queried \cup {direction}

ScanOutgoing ==
  /\ scan_pc = "outgoing"
  /\ FetchEvents("outgoing", BOOLEAN)
  /\ scan_pc' = "incoming"
  /\ UNCHANGED <<head, logs, high_water_marks, scan_op, from_block,
                 update_hwm, current_block, scan_from>>
  /\ UNCHANGED <<cctp_bridges, transactions, bridgeState, apart>>

ScanIncoming ==
  /\ scan_pc = "incoming"
  /\ FetchEvents("incoming", BOOLEAN)
  /\ scan_pc' = "store"
  /\ UNCHANGED <<head, logs, high_water_marks, scan_op, from_block,
                 update_hwm, current_block, scan_from>>
  /\ UNCHANGED <<cctp_bridges, transactions, bridgeState, apart>>

\* mutant: the mark is stored whatever update_hwm says
stores_mark_Always(upd, seen, start) == seen >= start

\* if update_hwm and max_block_seen >= scan_from:
stores_mark(upd, seen, start) == upd /\ seen >= start

\* db.set_high_water_mark(...), return transfers
ScanStore ==
  /\ scan_pc = "store"
  /\ high_water_marks' =
       IF stores_mark(update_hwm, max_block_seen, scan_from)
       THEN set_high_water_mark(high_water_marks, ScanKey,
                                hwm_update(max_block_seen, current_block))
       ELSE high_water_marks
  /\ scan_pc' = "done"
  /\ UNCHANGED <<head, logs, scan_op, from_block, update_hwm, current_block,
                 scan_from, max_block_seen, transfers, failed, queried>>
  /\ UNCHANGED <<cctp_bridges, transactions, bridgeState, apart>>

\* the scan has returned its transfers; the process exits
ScanExit ==
  /\ scan_pc = "done"
  /\ scan_pc' = "idle"
  /\ scan_op' = NULL
  /\ from_block' = NoBlock
  /\ update_hwm' = TRUE
  /\ current_block' = 0
  /\ scan_from' = 0
  /\ max_block_seen' = 0
  /\ transfers' = {}
  /\ failed' = {}
  /\ queried' = {}
  /\ UNCHANGED <<head, logs, high_water_marks>>
  /\ UNCHANGED <<cctp_bridges, transactions, bridgeState, apart>>

\* ------------------------------------------------------------------------
\* Invoices (db.py, invoices.py) and the matching of incoming transfers
\* (treasury.py); amounts in units of 0.005 USDC
\* ------------------------------------------------------------------------
\* Decimal("0.01")
Tolerance == 2
\* the addresses an invoice can name: the payer in lower case, another party
CounterpartyAddresses == {"0xabc", "0xDeF"}
InvoiceTypes == {"payable", "receivable"}
Totals == {4, 8}

\* str.lower()
lower(a) ==
  CASE a = "0xAbC" -> "0xabc"
    [] a = "0xDeF" -> "0xdef"
    [] OTHER -> a

Abs(x) == IF x < 0 THEN -x ELSE x

\* invoices.create_invoice: the row it inserts, numbered by the counter
new_invoice(n, address, chain_key, invoice_type, total) ==
  [invoice_number |-> n, status |-> "pending", invoice_type |-> invoice_type,
   chain |-> chain_key, counterparty_address |-> address,
   total_usdc |-> total, paid_usdc |-> 0, remaining_usdc |-> total,
   payments |-> <<>>]

insert_invoice(tbl, inv) == Append(tbl, inv)

\* SELECT * FROM invoices WHERE invoice_type = ? ORDER BY created_at DESC
list_invoices(tbl, invoice_type) ==
  SelectSeq([i \in 1..Len(tbl) |-> tbl[Len(tbl) + 1 - i]],
            LAMBDA inv : inv.invoice_type = invoice_type)

\* UPDATE invoices SET ... WHERE invoice_number = ?
\* (the columns an invoice has here; payments is payments_json)
_INVOICE_COLUMNS ==
  {"status", "counterparty_address", "chain", "total_usdc", "paid_usdc",
   "remaining_usdc", "payments", "invoice_type"}

\* UPDATE invoices SET ... WHERE invoice_number = ?  (one statement; an
\* unknown column raises before the statement runs)
update_invoice(tbl, n, updates) ==
  IF ~(DOMAIN updates \subseteq _INVOICE_COLUMNS) THEN tbl
  ELSE [tbl EXCEPT ![n] =
          [c \in DOMAIN tbl[n] |->
             IF c \in DOMAIN updates THEN updates[c] ELSE tbl[n][c]]]

\* the status pay_invoice and _record_incoming_payment give an invoice
invoice_status_NeverOverpaid(new_paid, total, status) ==
  IF new_paid >= total THEN "paid"
  ELSE IF new_paid > 0 THEN "partial" ELSE status

invoice_status(new_paid, total, status) ==
  IF new_paid >= total
  THEN IF new_paid > total THEN "overpaid" ELSE "paid"
  ELSE IF new_paid > 0 THEN "partial" ELSE status

\* the payment dict pay_invoice (after a good receipt) and
\* _record_incoming_payment append
payment(tx_hash, amount) ==
  [tx_hash |-> tx_hash, amount_usdc |-> amount, status |-> "confirmed"]

\* mutant: the paid total is raised without the payment being appended
add_payment_TotalsOnly(tbl, n, tx_hash, amount) ==
  LET inv == tbl[n]
      new_paid == inv.paid_usdc + amount
  IN update_invoice(tbl, n,
       [paid_usdc |-> new_paid,
        remaining_usdc |-> inv.total_usdc - new_paid,
        status |-> invoice_status(new_paid, inv.total_usdc, inv.status)])

\* payments.append(payment), new_paid, remaining, new_status, update_invoice
add_payment(tbl, n, tx_hash, amount) ==
  LET inv == tbl[n]
      new_paid == inv.paid_usdc + amount
  IN update_invoice(tbl, n,
       [payments |-> Append(inv.payments, payment(tx_hash, amount)),
        paid_usdc |-> new_paid,
        remaining_usdc |-> inv.total_usdc - new_paid,
        status |-> invoice_status(new_paid, inv.total_usdc, inv.status)])

\* amount == remaining or abs(amount - remaining) < Decimal("0.01")
exact_amount_Never(amount, remaining) == FALSE

exact_amount(amount, remaining) ==
  amount = remaining \/ Abs(amount - remaining) < Tolerance

\* treasury._match_incoming_to_invoice: the number of the invoice it returns
_match_incoming_to_invoice(tbl, sender, amount, chain_key) ==
  LET invs == list_invoices(tbl, "receivable")
      exact == {i \in DOMAIN invs :
                  /\ invs[i].status \in {"pending", "partial"}
                  /\ invs[i].chain = chain_key
                  /\ lower(invs[i].counterparty_address) = lower(sender)
                  /\ exact_amount(amount, invs[i].remaining_usdc)}
      fuzzy == {i \in DOMAIN invs :
                  /\ invs[i].status \in {"pending", "partial"}
                  /\ lower(invs[i].counterparty_address) = lower(sender)}
  IN IF exact # {} THEN invs[Min(exact)].invoice_number
     ELSE IF fuzzy # {} THEN invs[Min(fuzzy)].invoice_number
     ELSE NoInvoice

\* ------------------------------------------------------------------------
\* treasury.watch_incoming, for the one chain of ScanKey
\* ------------------------------------------------------------------------
\* scan_from, from the argument, the stored mark and the current block
watch_scan_from(fb, hwm, current) ==
  IF fb = NoBlock
  THEN IF hwm # NoBlock THEN hwm + 1
       ELSE Max({0, current - DEFAULT_FIRST_RUN_LOOKBACK})
  ELSE fb

\* the row of a transfer no invoice matched
IncomingLeg(e) ==
  [tx_hash |-> e.tx_hash, chain |-> ScanKey[1], type |-> "incoming",
   status |-> "confirmed", cctp_burn_tx |-> NoHash,
   from_address |-> e.from_address, amount_usdc |-> e.amount_usdc]

\* the row _record_incoming_payment writes
PaymentLeg(e, n) ==
  [tx_hash |-> e.tx_hash, chain |-> ScanKey[1], type |-> "incoming_payment",
   status |-> "confirmed", cctp_burn_tx |-> NoHash,
   from_address |-> e.from_address, amount_usdc |-> e.amount_usdc,
   invoice_number |-> n]

\* db.get_transactions(counterparty=sender): the rows from (or to) the sender
from_counterparty(row, sender) ==
  "from_address" \in DOMAIN row /\ lower(row.from_address) = lower(sender)

\* any(t.get("tx_hash") == tx_hash for t in existing)
already_recorded(tbl, e) ==
  \E i \in 1..Len(tbl) :
    from_counterparty(tbl[i], e.from_address) /\ tbl[i].tx_hash = e.tx_hash

\* the incoming dict of one iteration
incoming_of(st, e) ==
  [tx_hash |-> e.tx_hash, chain |-> ScanKey[1],
   from_address |-> e.from_address, amount_usdc |-> e.amount_usdc,
   already_recorded |-> already_recorded(st.transactions, e),
   matched_invoice |->
     IF already_recorded(st.transactions, e) THEN NoInvoice
     ELSE _match_incoming_to_invoice(st.invoices, e.from_address,
                                     e.amount_usdc, ScanKey[1])]

\* treasury._record_incoming_payment
_record_incoming_payment(st, e, n) ==
  [transactions |-> insert_transaction(st.transactions, PaymentLeg(e, n)),
   invoices |-> add_payment(st.invoices, n, e.tx_hash, e.amount_usdc)]

\* one iteration of the loop over the filter's entries: the store after it
watch_event(st, e) ==
  LET inc == incoming_of(st, e) IN
  IF inc.already_recorded THEN st
  ELSE IF inc.matched_invoice # NoInvoice
       THEN _record_incoming_payment(st, e, inc.matched_invoice)
       ELSE [st EXCEPT !.transactions = insert_transaction(@, IncomingLeg(e))]

\* the iterations for the entries, in block order
RECURSIVE RecordIncoming(_, _)
RecordIncoming(st, entries) ==
  IF entries = {} THEN st
  ELSE LET e == CHOOSE x \in entries :
                  \A y \in entries : x.block_number <= y.block_number
       IN RecordIncoming(watch_event(st, e), entries \ {e})

WatchBegin ==
  \E fb \in FromBlocks :
    LET hwm == IF fb = NoBlock
               THEN get_high_water_mark(high_water_marks, ScanKey)
               ELSE NoBlock IN
    /\ scan_pc = "idle"
    /\ scan_op' = "watch"
    /\ from_block' = fb
    /\ current_block' = IF fb = NoBlock /\ hwm = NoBlock THEN head
                        ELSE current_block
    /\ scan_from' = watch_scan_from(fb, hwm, head)
    /\ scan_pc' = "watch_incoming"
    /\ UNCHANGED <<head, logs, high_water_marks, update_hwm, max_block_seen,
                   transfers, failed, queried>>
    /\ UNCHANGED <<cctp_bridges, transactions, bridgeState, apart>>

\* the try block: the incoming filter, the loop over its entries with the
\* ledger write of each, then the mark; an exception skips what is left of it
WatchIncoming(F) ==
  /\ scan_pc = "watch_incoming"
  /\ \E fail \in F :
       LET entries == get_all_entries(scan_from, "incoming")
           n == Cardinality(entries) IN
       \E k \in 0..n :
         LET got == FirstEntries(entries, k)
             max_block == Max({scan_from} \cup {e.block_number : e \in got})
             after == RecordIncoming([transactions |-> transactions,
                                      invoices |-> invoices], got)
         IN /\ ~fail => k = n
            /\ fail => (k < n \/ n = 0)
            /\ transfers' = got
            /\ transactions' = after.transactions
            /\ invoices' = after.invoices
            /\ max_block_seen' = max_block
            /\ failed' = IF fail THEN {"incoming"} ELSE {}
            /\ high_water_marks' =
                 IF ~fail /\ max_block > scan_from
                 THEN set_high_water_mark(high_water_marks, ScanKey, max_block)
                 ELSE high_water_marks
  /\ queried' = {"incoming"}
  /\ scan_pc' = "done"
  /\ UNCHANGED <<head, logs, scan_op, from_block, update_hwm, current_block,
                 scan_from>>
  /\ UNCHANGED <<cctp_bridges, bridgeState, counting, storing, reporting, polling, incoming,
                 invoice_checks>>

\* ------------------------------------------------------------------------
\* The scanner: one scan at a time, on a chain that grows
\* ------------------------------------------------------------------------
NextScan ==
  \/ FetchBegin
  \/ ScanOutgoing
  \/ ScanIncoming
  \/ ScanStore
  \/ WatchBegin
  \/ WatchIncoming(BOOLEAN)
  \/ ScanExit
  \/ Mine

SpecScan == Init /\ [][NextScan]_vars

\* the same scanner when every call leaves from_block and update_hwm at their
\* defaults and no query raises
NextDefaultScans ==
  \/ FetchBegin /\ from_block' = NoBlock /\ update_hwm'
  \/ ScanOutgoing /\ failed' = {}
  \/ ScanIncoming /\ failed' = {}
  \/ ScanStore
  \/ WatchBegin /\ from_block' = NoBlock
  \/ WatchIncoming({FALSE})
  \/ ScanExit
  \/ Mine

SpecDefaultScans == Init /\ [][NextDefaultScans]_vars

\* ------------------------------------------------------------------------
\* The invoice operations, one at a time, and the incoming transfers that
\* watch_incoming works on (incoming is a local of its loop: it is gone when
\* another operation runs)
\* ------------------------------------------------------------------------
\* pay_invoice's amount_usdc=None
NoAmount == -1
PayAmounts == {NoAmount, 3}

\* invoices.create_invoice, with arguments it accepts
CreateInvoice ==
  \E address \in CounterpartyAddresses, chain_key \in Chains,
     invoice_type \in InvoiceTypes, total \in Totals :
    /\ Len(invoices) < MaxInvoices
    /\ invoices' = insert_invoice(invoices,
                     new_invoice(Len(invoices) + 1, address, chain_key,
                                 invoice_type, total))
    /\ incoming' = NoIncoming
    /\ invoice_checks' = NoChecks
    /\ UNCHANGED transactions
    /\ UNCHANGED <<cctp_bridges, bridgeState, counting, storing, scan, reporting, polling>>

\* invoices.cancel_invoice
cancel_rejected(inv) ==
  inv.status \in {"paid", "overpaid"} \/ inv.paid_usdc > 0

CancelInvoice ==
  \E n \in DOMAIN invoices :
    /\ invoices' = IF cancel_rejected(invoices[n]) THEN invoices
                   ELSE update_invoice(invoices, n, [status |-> "cancelled"])
    /\ incoming' = NoIncoming
    /\ invoice_checks' = NoChecks
    /\ UNCHANGED transactions
    /\ UNCHANGED <<cctp_bridges, bridgeState, counting, storing, scan, reporting, polling>>

\* the hash of a transaction the ledger has not seen
fresh_hash(tbl) == <<"tx", Len(tbl) + 1>>

\* pay_invoice's checks before the transfer is sent
pay_rejected(inv, amount, funded) ==
  \/ inv.status \in {"cancelled", "overpaid"}
  \/ (inv.remaining_usdc <= 0 /\ inv.status = "paid")
  \/ amount <= 0
  \/ ~funded

\* the row pay_invoice records, for a confirmed and for a reverted transfer
InvoicePaymentLeg(inv, h, amount, status) ==
  [tx_hash |-> h, chain |-> inv.chain,
   type |-> IF status = 1 THEN "invoice_payment" ELSE "invoice_payment_failed",
   status |-> IF status = 1 THEN "confirmed" ELSE "failed",
   cctp_burn_tx |-> NoHash, from_address |-> "TREASURY_WALLET",
   amount_usdc |-> amount, invoice_number |-> inv.invoice_number]

\* invoices.pay_invoice
PayInvoice ==
  \E n \in DOMAIN invoices, amount_usdc \in PayAmounts, funded \in BOOLEAN,
     status \in {0, 1} :
    LET invoice == invoices[n]
        amount == IF amount_usdc = NoAmount THEN invoice.remaining_usdc
                  ELSE amount_usdc
        h == fresh_hash(transactions)
    IN /\ Len(transactions) < MaxLedger
       /\ incoming' = NoIncoming
       /\ invoice_checks' = NoChecks
       /\ IF pay_rejected(invoice, amount, funded)
          THEN UNCHANGED <<invoices, transactions>>
          ELSE /\ invoices' = IF status = 1
                              THEN add_payment(invoices, n, h, amount)
                              ELSE invoices
               /\ transactions' =
                    insert_transaction(transactions,
                      InvoicePaymentLeg(invoice, h, amount, status))
       /\ UNCHANGED <<cctp_bridges, bridgeState, counting, storing, scan, reporting, polling>>

\* the Transfer events to the wallet a scan can come upon: one the ledger has
\* not seen, or (a scan from an earlier block) one it has recorded
IncomingEvents(tbl) ==
  {[tx_hash |-> fresh_hash(tbl), from_address |-> sender,
    amount_usdc |-> amount, block_number |-> 0] :
     sender \in Senders, amount \in TransferAmounts}
  \cup
  {[tx_hash |-> tbl[i].tx_hash, from_address |-> tbl[i].from_address,
    amount_usdc |-> tbl[i].amount_usdc, block_number |-> 0] :
     i \in {j \in DOMAIN tbl : tbl[j].type \in {"incoming", "incoming_payment"}}}

\* one iteration of watch_incoming's loop over the filter's entries
IncomingEvent ==
  \E e \in IncomingEvents(transactions) :
    LET st == [transactions |-> transactions, invoices |-> invoices]
        after == watch_event(st, e)
    IN /\ Len(transactions) < MaxLedger
       /\ incoming' = incoming_of(st, e)
       /\ invoice_checks' = NoChecks
       /\ transactions' = after.transactions
       /\ invoices' = after.invoices
       /\ UNCHANGED <<cctp_bridges, bridgeState, counting, storing, scan, reporting, polling>>

\* sum(Decimal(p["amount_usdc"]) for p in payments if status == "confirmed")
RECURSIVE payment_total(_)
payment_total(payments) ==
  IF payments = <<>> THEN 0
  ELSE (IF Head(payments).status = "confirmed"
        THEN Head(payments).amount_usdc ELSE 0)
       + payment_total(Tail(payments))

\* the entry reconcile appends for one invoice
invoice_check(inv) ==
  [invoice_number |-> inv.invoice_number,
   status |-> IF payment_total(inv.payments) # inv.paid_usdc
              THEN "discrepancy" ELSE "ok"]

\* reconcile's invoice payment verification, for every chain: it reads the
\* invoices and writes none
ReconcileInvoices ==
  /\ invoice_checks' =
       [ck \in Chains |->
          LET chain_invoices == SelectSeq(invoices, LAMBDA i : i.chain = ck)
          IN [k \in 1..Len(chain_invoices) |-> invoice_check(chain_invoices[k])]]
  /\ incoming' = NoIncoming
  /\ UNCHANGED <<invoices, transactions>>
  /\ UNCHANGED <<cctp_bridges, bridgeState, counting, storing, scan, reporting, polling>>

NextInvoice ==
  \/ CreateInvoice
  \/ CancelInvoice
  \/ PayInvoice
  \/ IncomingEvent
  \/ ReconcileInvoices

SpecInvoice == Init /\ [][NextInvoice]_vars

\* watch_incoming killed in _record_incoming_payment between db.update_invoice
\* and record_transaction, on the first matched entry of its loop that the
\* ledger does not have: the entries before it are worked on in full, the
\* invoice has the payment, the ledger row and the mark are not written
WatchKilled ==
  /\ scan_pc = "watch_incoming"
  /\ \E e \in get_all_entries(scan_from, "incoming") :
       LET before == {f \in get_all_entries(scan_from, "incoming") :
                        f.block_number < e.block_number}
           st == RecordIncoming([transactions |-> transactions,
                                 invoices |-> invoices], before)
           inc == incoming_of(st, e)
       IN /\ inc.matched_invoice # NoInvoice
          /\ transactions' = st.transactions
          /\ invoices' = add_payment(st.invoices, inc.matched_invoice,
                                     e.tx_hash, e.amount_usdc)
  /\ scan_pc' = "idle"
  /\ scan_op' = NULL
  /\ from_block' = NoBlock
  /\ current_block' = 0
  /\ scan_from' = 0
  /\ UNCHANGED <<head, logs, high_water_marks, update_hwm, max_block_seen,
                 transfers, failed, queried>>
  /\ UNCHANGED <<cctp_bridges, bridgeState, counting, storing, reporting, polling, incoming,
                 invoice_checks>>

\* receivables are created and watch_incoming runs, to its end or to a kill
NextWatch ==
  \/ CreateInvoice /\ invoices'[Len(invoices')].invoice_type = "receivable"
  \/ WatchBegin
  \/ WatchIncoming(BOOLEAN)
  \/ WatchKilled
  \/ ScanExit
  \/ Mine

SpecWatch == Init /\ [][NextWatch]_vars

\* ------------------------------------------------------------------------
\* db.get_db: a store operation as a unit of work.  The statements of the
\* with block run on the connection; leaving the block commits, an exception
\* rolls back, and a process killed inside the block leaves nothing behind
\* ------------------------------------------------------------------------
\* the updates the callers of update_bridge pass, and one that names a column
\* _BRIDGE_COLUMNS does not have after one it has
BridgeUpdates ==
  {timeout_update, attestation_update("att", "full")}
  \cup {mint_update(MintHash(b, 1)) : b \in BurnHashes}
  \cup {[status |-> "completed", created_at |-> NULL]}

\* likewise for update_invoice
InvoiceUpdates ==
  {[status |-> "cancelled"],
   [paid_usdc |-> 4, remaining_usdc |-> 0, status |-> "paid"],
   [status |-> "paid", invoice_number |-> NoInvoice]}

\* db.insert_bridge for a burn that has no row
StoreInsertBridge ==
  \E h \in BurnHashes \ DOMAIN cctp_bridges, r \in Routes :
    /\ unit.pc = "idle"
    /\ cctp_bridges' =
         insert_bridge(cctp_bridges,
           bridge_record([source_chain |-> r[1], dest_chain |-> r[2],
                          amount_usdc |-> 1], h))
    /\ UNCHANGED <<transactions, bridgeState, scan, apart>>

\* db.update_bridge up to its conn.execute: the loop over the columns raises
\* at an unknown one, before the statement; else the UPDATE runs on the
\* connection
UpdateBridgeBegin ==
  \E h \in BurnHashes, updates \in BridgeUpdates :
    /\ unit.pc = "idle"
    /\ unit' = [pc |-> IF DOMAIN updates \subseteq _BRIDGE_COLUMNS
                       THEN "executed" ELSE "raised",
                table |-> "cctp_bridges", burn_tx_hash |-> h,
                invoice_number |-> NoInvoice, updates |-> updates,
                error |-> NULL]
    /\ conn' = [cctp_bridges |-> update_bridge(cctp_bridges, h, updates),
                invoices |-> invoices]
    /\ UNCHANGED <<cctp_bridges, transactions, bridgeState, counting, scan, reporting,
                   polling, invoicing>>

\* db.update_invoice up to its conn.execute
UpdateInvoiceBegin ==
  \E n \in DOMAIN invoices, updates \in InvoiceUpdates :
    /\ unit.pc = "idle"
    /\ unit' = [pc |-> IF DOMAIN updates \subseteq _INVOICE_COLUMNS
                       THEN "executed" ELSE "raised",
                table |-> "invoices", burn_tx_hash |-> NoHash,
                invoice_number |-> n, updates |-> updates, error |-> NULL]
    /\ conn' = [cctp_bridges |-> cctp_bridges,
                invoices |-> update_invoice(invoices, n, updates)]
    /\ UNCHANGED <<cctp_bridges, transactions, bridgeState, counting, scan, reporting,
                   polling, invoicing>>

\* the with block ends: conn.commit()
UnitCommit ==
  /\ unit.pc = "executed"
  /\ cctp_bridges' = conn.cctp_bridges
  /\ invoices' = conn.invoices
  /\ unit' = [unit EXCEPT !.pc = "done"]
  /\ conn' = NoConn
  /\ UNCHANGED <<transactions, bridgeState, counting, scan, reporting, polling,
                 incoming, invoice_checks>>

\* except Exception: conn.rollback(); raise
UnitRollback ==
  /\ unit.pc = "raised"
  /\ unit' = [unit EXCEPT !.pc = "done", !.error = "ValueError"]
  /\ conn' = NoConn
  /\ UNCHANGED <<cctp_bridges, transactions, bridgeState, counting, scan, reporting,
                 polling, invoicing>>

\* the process is killed inside the with block: nothing was committed
UnitKill ==
  /\ unit.pc \in {"executed", "raised"}
  /\ unit' = NoUnit
  /\ conn' = NoConn
  /\ UNCHANGED <<cctp_bridges, transactions, bridgeState, counting, scan, reporting,
                 polling, invoicing>>

\* the caller goes on
UnitExit ==
  /\ unit.pc = "done"
  /\ unit' = NoUnit
  /\ UNCHANGED conn
  /\ UNCHANGED <<cctp_bridges, transactions, bridgeState, counting, scan, reporting,
                 polling, invoicing>>

\* rows are inserted and updated, one unit of work at a time (the database
\* has one writer); one invoice is enough for update_invoice
NextStore ==
  \/ StoreInsertBridge
  \/ CreateInvoice /\ unit.pc = "idle" /\ invoices = <<>>
  \/ UpdateBridgeBegin
  \/ UpdateInvoiceBegin
  \/ UnitCommit
  \/ UnitRollback
  \/ UnitKill
  \/ UnitExit

SpecStore == Init /\ [][NextStore]_vars

\* ------------------------------------------------------------------------
\* db.next_counter and the number create_invoice takes, in two processes.
\* The INSERT opens the connection's write transaction, which SQLite gives to
\* one connection at a time; it ends at the commit of get_db or with the
\* process
\* ------------------------------------------------------------------------
CounterKey == "invoice_number"

\* SELECT value FROM counters WHERE key = ?, 0 after the INSERT of a new key
counter_value(tbl, key) == IF key \in DOMAIN tbl THEN tbl[key] ELSE 0

\* mutant: a connection writes whether or not another holds the write lock
may_write_Always(lock, p) == TRUE

\* the write lock is free or the connection's own
may_write(lock, p) == lock \in {0, p}

Unlock(p) == db_lock' = IF db_lock = p THEN 0 ELSE db_lock

\* create_invoice is called with line items that pass its first checks
CounterBegin(p) ==
  /\ ctr_pc[p] = "idle"
  /\ counter_value(counters, CounterKey) < MaxCounter
  /\ ctr_pc' = [ctr_pc EXCEPT ![p] = "insert"]
  /\ UNCHANGED <<counters, db_lock, inv_num, ctr_view>>
  /\ UNCHANGED <<cctp_bridges, transactions, bridgeState, scan, reporting,
                 polling, invoicing, storing>>

\* INSERT ... ON CONFLICT DO NOTHING; UPDATE counters SET value = value + 1
CounterWrite(p) ==
  /\ ctr_pc[p] = "insert"
  /\ may_write(db_lock, p)
  /\ db_lock' = p
  /\ ctr_view' = [ctr_view EXCEPT ![p] = counter_value(counters, CounterKey) + 1]
  /\ ctr_pc' = [ctr_pc EXCEPT ![p] = "select"]
  /\ UNCHANGED <<counters, inv_num>>
  /\ UNCHANGED <<cctp_bridges, transactions, bridgeState, scan, reporting,
                 polling, invoicing, storing>>

\* the lock is not freed within the busy timeout: OperationalError
CounterBusy(p) ==
  /\ ctr_pc[p] = "insert"
  /\ ~may_write(db_lock, p)
  /\ ctr_pc' = [ctr_pc EXCEPT ![p] = "done"]
  /\ UNCHANGED <<counters, db_lock, inv_num, ctr_view>>
  /\ UNCHANGED <<cctp_bridges, transactions, bridgeState, scan, reporting,
                 polling, invoicing, storing>>

\* row = SELECT value ...; return row[0], and the commit of get_db
CounterCommit(p) ==
  /\ ctr_pc[p] = "select"
  /\ inv_num' = [inv_num EXCEPT ![p] = ctr_view[p]]
  /\ counters' = [k \in DOMAIN counters \cup {CounterKey} |-> ctr_view[p]]
  /\ Unlock(p)
  /\ ctr_pc' = [ctr_pc EXCEPT ![p] = "validate"]
  /\ UNCHANGED ctr_view
  /\ UNCHANGED <<cctp_bridges, transactions, bridgeState, scan, reporting,
                 polling, invoicing, storing>>

\* the process is killed: an open transaction is dropped
CounterKill(p) ==
  /\ ctr_pc[p] \in {"insert", "select", "validate"}
  /\ Unlock(p)
  /\ ctr_pc' = [ctr_pc EXCEPT ![p] = "idle"]
  /\ inv_num' = [inv_num EXCEPT ![p] = NoInvoice]
  /\ ctr_view' = [ctr_view EXCEPT ![p] = 0]
  /\ UNCHANGED counters
  /\ UNCHANGED <<cctp_bridges, transactions, bridgeState, scan, reporting,
                 polling, invoicing, storing>>

\* the total is checked after the number was taken; the invoice is inserted
\* if it is positive
CreateNumbered(p) ==
  \E total \in {0} \cup Totals :
    /\ ctr_pc[p] = "validate"
    /\ invoices' = IF total <= 0 THEN invoices
                   ELSE insert_invoice(invoices,
                          new_invoice(inv_num[p], "0xabc", ScanKey[1],
                                      "receivable", total))
    /\ ctr_pc' = [ctr_pc EXCEPT ![p] = "done"]
    /\ UNCHANGED <<counters, db_lock, inv_num, ctr_view, incoming,
                   invoice_checks>>
    /\ UNCHANGED <<cctp_bridges, transactions, bridgeState, scan, reporting,
                   polling, storing>>

CounterExit(p) ==
  /\ ctr_pc[p] = "done"
  /\ ctr_pc' = [ctr_pc EXCEPT ![p] = "idle"]
  /\ inv_num' = [inv_num EXCEPT ![p] = NoInvoice]
  /\ ctr_view' = [ctr_view EXCEPT ![p] = 0]
  /\ UNCHANGED <<counters, db_lock>>
  /\ UNCHANGED <<cctp_bridges, transactions, bridgeState, scan, reporting,
                 polling, invoicing, storing>>

NextCounter ==
  \E p \in CounterProcs :
    \/ CounterBegin(p)
    \/ CounterWrite(p)
    \/ CounterBusy(p)
    \/ CounterCommit(p)
    \/ CounterKill(p)
    \/ CreateNumbered(p)
    \/ CounterExit(p)

SpecCounter == Init /\ [][NextCounter]_vars

\* ------------------------------------------------------------------------
\* reconcile.reconcile: the classification of one chain's records
\* ------------------------------------------------------------------------
TxHashes == {"0xa", "0xb"}
\* amounts in hundredths of a USDC
AmountValues == {1050, 1100}
\* the texts a recorded amount can have: transfer_usdc stores
\* str(amount_usdc), the text the operator typed
AmountTexts == {"10.5", "10.50", "11"}

\* Decimal(text)
Decimal(text) ==
  CASE text = "10.5" -> 1050
    [] text = "10.50" -> 1050
    [] text = "11" -> 1100

\* str(Decimal(event.args["value"]) / Decimal(10 ** decimals)): the quotient
\* carries no trailing zero
amount_text(value) ==
  CASE value = 1050 -> "10.5"
    [] value = 1100 -> "11"

SeqsUpTo(S, n) == UNION {[1..k -> S] : k \in 0..n}

\* rows of transactions, as reconcile reads them
InternalTxs ==
  [tx_hash : TxHashes, chain : Chains, amount_usdc : AmountTexts,
   type : {"transfer"}]

\* the records fetch_onchain_usdc_transfers builds, one per Transfer log; log
\* is the log's index in its transaction (not a field of the record)
OnchainTxs ==
  {[tx_hash |-> h, log |-> l, direction |-> d,
    amount_usdc |-> amount_text(v)] :
     h \in TxHashes, l \in {0, 1}, d \in Directions, v \in AmountValues}

\* what one scan can return: the outgoing records before the incoming ones, a
\* log once per direction, with one amount
ScanResult(txs) ==
  \A i, j \in DOMAIN txs :
    /\ (i < j /\ txs[i].direction = "incoming")
       => txs[j].direction = "incoming"
    /\ (i # j /\ txs[i].tx_hash = txs[j].tx_hash /\ txs[i].log = txs[j].log)
       => ( /\ txs[i].direction # txs[j].direction
            /\ txs[i].amount_usdc = txs[j].amount_usdc )

\* {tx["tx_hash"]: tx for tx in txs}: a later record replaces an earlier one
\* of the same hash
by_hash(txs) ==
  [h \in {txs[i].tx_hash : i \in DOMAIN txs} |->
     txs[Max({i \in DOMAIN txs : txs[i].tx_hash = h})]]

\* the keys of that dict, in insertion order
keys_in_order(txs) ==
  LET first == {i \in DOMAIN txs :
                  \A j \in 1..(i - 1) : txs[j].tx_hash # txs[i].tx_hash}
  IN [k \in 1..Cardinality(first) |->
        txs[CHOOSE i \in first :
              Cardinality({j \in first : j < i}) = k - 1].tx_hash]

\* [t for t in internal_txs if t.get("chain") == ck]
internal_chain(txs, ck) == SelectSeq(txs, LAMBDA t : t.chain = ck)

\* tx.get("amount_usdc") == onchain.get("amount_usdc"), on two str
amounts_equal(internal_amount, onchain_amount) ==
  internal_amount = onchain_amount

\* the branch the loop over internal_chain takes for a record
classify(tx, onchain_by_hash) ==
  IF tx.tx_hash \in DOMAIN onchain_by_hash
  THEN IF amounts_equal(tx.amount_usdc,
                        onchain_by_hash[tx.tx_hash].amount_usdc)
       THEN "matched" ELSE "amount_mismatch"
  ELSE "unmatched_internal"

matched_entry(tx, onchain_by_hash) ==
  IF classify(tx, onchain_by_hash) = "matched"
  THEN [tx_hash |-> tx.tx_hash, status |-> "matched",
        internal_amount |-> tx.amount_usdc, onchain_amount |-> tx.amount_usdc]
  ELSE [tx_hash |-> tx.tx_hash, status |-> "amount_mismatch",
        internal_amount |-> tx.amount_usdc,
        onchain_amount |-> onchain_by_hash[tx.tx_hash].amount_usdc]

Count(seq, P(_)) == Cardinality({i \in DOMAIN seq : P(seq[i])})

\* the two loops of reconcile over one chain
chain_report(internal, onchain) ==
  LET onchain_by_hash == by_hash(onchain)
      mine == internal_chain(internal, ScanKey[1])
      internal_by_hash == by_hash(mine)
      found == SelectSeq(mine, LAMBDA t : t.tx_hash \in DOMAIN onchain_by_hash)
      lost == SelectSeq(mine, LAMBDA t : t.tx_hash \notin DOMAIN onchain_by_hash)
      extra == SelectSeq(keys_in_order(onchain),
                         LAMBDA h : h \notin DOMAIN internal_by_hash)
      matched == [i \in DOMAIN found |-> matched_entry(found[i], onchain_by_hash)]
  IN [matched_txs |-> matched,
      unmatched_internal |->
        [i \in DOMAIN lost |->
           [tx_hash |-> lost[i].tx_hash, amount |-> lost[i].amount_usdc,
            type |-> lost[i].type]],
      unmatched_onchain |->
        [i \in DOMAIN extra |->
           [tx_hash |-> extra[i],
            amount |-> onchain_by_hash[extra[i]].amount_usdc,
            direction |-> onchain_by_hash[extra[i]].direction]],
      summary |->
        [matched |-> Count(matched, LAMBDA m : m.status = "matched"),
         unmatched_internal |->
           Count(matched, LAMBDA m : m.status = "amount_mismatch") + Len(lost),
         unmatched_onchain |-> Len(extra)]]

Reconcile ==
  /\ report_pc = "start"
  /\ report' = chain_report(internal_txs, onchain_txs)
  /\ report_pc' = "done"
  /\ UNCHANGED <<internal_txs, onchain_txs>>
  /\ UNCHANGED <<cctp_bridges, transactions, bridgeState, counting, storing, scan, polling,
                 invoicing>>

\* the report of every store and every scan result within the bounds
InitReport ==
  /\ InitCommon
  /\ killBudget = -1
  /\ internal_txs \in SeqsUpTo(InternalTxs, MaxTxs)
  /\ onchain_txs \in SeqsUpTo(OnchainTxs, MaxTxs)
  /\ ScanResult(onchain_txs)
  /\ report = NoReport
  /\ report_pc = "start"
  /\ PollInit
  /\ InvoiceInit
  /\ StoreInit
  /\ CounterInit

NextReport == Reconcile

SpecReport == InitReport /\ [][NextReport]_vars

\* ------------------------------------------------------------------------
\* cctp.wait_for_attestation_v2: the poll loop and its backoff
\* ------------------------------------------------------------------------
base_delay == 2
max_delay == 60
\* the bound of the delay after a 429
rate_limit_delay == 120
\* max_wait as callers give it: none, the default of wait_for_attestation_v2
MaxWaits == {-1, 0, 300}
\* what one requests.get can give: status 200 with a complete message, 200
\* without one or another status (404, 5xx), status 429, an exception of
\* requests (connection error, timeout, a body that is no JSON)
Responses == {"complete", "not_ready", "rate_limited", "RequestException"}
\* how long a request takes: no time, or its timeout of 10 s
Durations == {0, 100}

\* while time.time() - start < max_wait
may_poll_AtDeadline(t, wait) == t <= 10 * wait

may_poll(t, wait) == t < 10 * wait

\* delay = min(delay * 3, 120)
rate_limited_delay_Double(d) == Min({d * 2, rate_limit_delay})

rate_limited_delay(d) == Min({d * 3, rate_limit_delay})

\* delay = min(delay * 2, max_delay)
next_delay_Uncapped(d) == d * 2

next_delay(d) == Min({d * 2, max_delay})

\* random.uniform(0, delay * 0.3), in tenths of a second: its two ends and
\* a value between them
Jitters(d) == {0, d, 3 * d}

\* the try statement's outcome for a response
after_response(resp) ==
  CASE resp = "complete" -> "return"
    [] resp \in {"not_ready", "rate_limited"} -> "sleep"
    [] resp = "RequestException" -> "sleep"     \* except requests.RequestException
    [] OTHER -> "raise"

\* if not burn_tx_hash: return None, None; delay = base_delay; start = ...
PollBegin ==
  \E h \in {"empty", "given"}, w \in MaxWaits :
    /\ poll_pc = "idle"
    /\ poll_hash' = h
    /\ max_wait' = w
    /\ IF h = "empty"
       THEN /\ poll_pc' = "done"
            /\ poll_result' = "none"
            /\ UNCHANGED delay
       ELSE /\ poll_pc' = "loop"
            /\ delay' = base_delay
            /\ UNCHANGED poll_result
    /\ UNCHANGED <<attempt, elapsed, response, pre_delay, wait_delay,
                   prev_wait_delay, sleep_time, limited, checked_at>>
    /\ UNCHANGED <<cctp_bridges, transactions, bridgeState, counting, storing, scan, reporting, invoicing>>

\* the loop condition: attempt += 1, or return None, None after the loop
PollLoop ==
  /\ poll_pc = "loop"
  /\ IF may_poll(elapsed, max_wait)
     THEN /\ attempt' = attempt + 1
          /\ checked_at' = elapsed
          /\ poll_pc' = "request"
          /\ UNCHANGED poll_result
     ELSE /\ poll_pc' = "done"
          /\ poll_result' = "none"
          /\ UNCHANGED <<attempt, checked_at>>
  /\ UNCHANGED <<poll_hash, max_wait, delay, elapsed, response, pre_delay,
                 wait_delay, prev_wait_delay, sleep_time, limited>>
  /\ UNCHANGED <<cctp_bridges, transactions, bridgeState, counting, storing, scan, reporting, invoicing>>

\* the try statement: requests.get and what follows from its answer
PollRequest ==
  \E resp \in Responses, dur \in Durations :
    /\ poll_pc = "request"
    /\ response' = resp
    /\ pre_delay' = delay
    /\ elapsed' = elapsed + dur
    /\ delay' = IF resp = "rate_limited" THEN rate_limited_delay(delay)
                ELSE delay
    /\ limited' = (limited \/ resp = "rate_limited")
    /\ poll_pc' = IF after_response(resp) = "sleep" THEN "sleep" ELSE "done"
    /\ poll_result' = CASE after_response(resp) = "return" -> "pair"
                        [] after_response(resp) = "raise" -> "raised"
                        [] OTHER -> poll_result
    /\ UNCHANGED <<poll_hash, max_wait, attempt, wait_delay, prev_wait_delay,
                   sleep_time, checked_at>>
    /\ UNCHANGED <<cctp_bridges, transactions, bridgeState, counting, storing, scan, reporting, invoicing>>

\* jitter, time.sleep(delay + jitter), delay = min(delay * 2, max_delay)
PollSleep ==
  \E jitter \in Jitters(delay) :
    /\ poll_pc = "sleep"
    /\ sleep_time' = 10 * delay + jitter
    /\ elapsed' = elapsed + 10 * delay + jitter
    /\ prev_wait_delay' = wait_delay
    /\ wait_delay' = delay
    /\ delay' = next_delay(delay)
    /\ poll_pc' = "loop"
    /\ UNCHANGED <<poll_hash, max_wait, attempt, response, pre_delay, limited,
                   checked_at, poll_result>>
    /\ UNCHANGED <<cctp_bridges, transactions, bridgeState, counting, storing, scan, reporting, invoicing>>

NextPoll ==
  \/ PollBegin
  \/ PollLoop
  \/ PollRequest
  \/ PollSleep

SpecPoll == Init /\ [][NextPoll]_vars

\* the call runs on: no step of it waits for anything but the request's
\* timeout and its own sleep
SpecPollLive == Init /\ [][NextPoll]_vars /\ WF_vars(NextPoll)

\* ------------------------------------------------------------------------
\* Properties
\* ------------------------------------------------------------------------
Row(h) == get_bridge(cctp_bridges, h)
Quiet == \A p \in Procs : pc[p] \in {"idle", "done"}
StatusOf(tbl, h) == IF h \in DOMAIN tbl THEN tbl[h].status ELSE "start"
SameButStatus(r1, r2) == [r1 EXCEPT !.status = NULL] = [r2 EXCEPT !.status = NULL]

\* C1: at most one receiveMessage transaction is ever sent for a burn, whatever
\* crashes in between and whether or not the nonce query answers.  Stated in
\* the form that still allows the re-send after a reverted mint that
\* retry_mint exists for: once a receiveMessage for a burn has confirmed, no
\* further one is sent for it.
C1_NoMintAfterConfirmedMint ==
  \A h \in BurnHashes :
    \A i \in 1..Len(mintTxs[h]) : mintTxs[h][i] = 1 => i = Len(mintTxs[h])

\* C2: complete_bridge on a completed row returns that row at once: no
\* transaction sent, no poll of the attestation API, no write to the store.
C2_CompletedIsNoOp ==
  [][\A p \in Procs : \A h \in BurnHashes :
       ( /\ pc[p] = "idle"
         /\ op'[p] = "complete_bridge"
         /\ burn_tx_hash'[p] = h
         /\ Row(h).status = "completed" )
       => ( /\ pc'[p] = "done"
            /\ result'[p] = [kind |-> "ok", error |-> NULL, value |-> Row(h)]
            /\ ~polled'[p]
            /\ ~submitted'[p]
            /\ UNCHANGED <<cctp_bridges, transactions, burned, mintTxs>> )]_vars

C2_Witness ==
  \E p \in Procs :
    /\ pc[p] = "done"
    /\ op[p] = "complete_bridge"
    /\ bridge[p].status = "completed"
    /\ result[p].value = Row(burn_tx_hash[p])

C4_CompletedIsFinal ==
  /\ [](\A h \in DOMAIN cctp_bridges :
          (cctp_bridges[h].mint_tx_hash # NoHash)
          <=> (cctp_bridges[h].status = "completed"))
  /\ [][\A h \in DOMAIN cctp_bridges :
          cctp_bridges[h].status = "completed"
          => StatusOf(cctp_bridges', h) = "completed"]_vars

C4_Witness ==
  \E h \in DOMAIN cctp_bridges :
    /\ cctp_bridges[h].status = "completed"
    /\ cctp_bridges[h].mint_tx_hash # NoHash

\* C5: every change of a row's status is a transition of the state diagram
\* of the specification, which has the poll timeout leave
\* attestation_received.
SpecTransitions ==
  {<<"start", "burn_confirmed">>,
   <<"burn_confirmed", "attestation_received">>,
   <<"attestation_received", "completed">>,
   <<"attestation_received", "awaiting_attestation">>,
   <<"awaiting_attestation", "attestation_received">>}

C5_SpecDiagram ==
  [][\A h \in BurnHashes :
       StatusOf(cctp_bridges', h) # StatusOf(cctp_bridges, h)
       => <<StatusOf(cctp_bridges, h), StatusOf(cctp_bridges', h)>>
            \in SpecTransitions]_vars

\* C5 as amended: the poll timeout leaves burn_confirmed (a row in
\* attestation_received is never polled for again); the other transitions are
\* those of the diagram.
CodeTransitions ==
  {<<"start", "burn_confirmed">>,
   <<"burn_confirmed", "attestation_received">>,
   <<"attestation_received", "completed">>,
   <<"burn_confirmed", "awaiting_attestation">>,
   <<"awaiting_attestation", "attestation_received">>}

C5_CodeDiagram ==
  [][\A h \in BurnHashes :
       StatusOf(cctp_bridges', h) # StatusOf(cctp_bridges, h)
       => <<StatusOf(cctp_bridges, h), StatusOf(cctp_bridges', h)>>
            \in CodeTransitions]_vars

C5_Witness ==
  \E h \in DOMAIN cctp_bridges :
    cctp_bridges[h].status = "awaiting_attestation"

\* C6: a receiveMessage is sent for a burn only when the burn is confirmed,
\* the attestation API has answered, and the row of the burn already holds
\* the attestation and the message.
C6_MintAfterPersist ==
  [][\A h \in BurnHashes :
       mintTxs'[h] # mintTxs[h]
       => ( /\ h \in burned
            /\ oracle[h].attestation # NULL
            /\ h \in DOMAIN cctp_bridges
            /\ Row(h).attestation # NULL
            /\ Row(h).message_bytes # NULL )]_vars

C6_Witness == \E h \in BurnHashes : Len(mintTxs[h]) > 0

\* C7: whenever no handler is running, every confirmed burn has its row in
\* cctp_bridges, wherever bridge_usdc returned, raised or was killed.
C7_BurnHasRow == Quiet => burned \subseteq DOMAIN cctp_bridges

\* C8: every row in cctp_bridges eventually has status completed and a
\* mint_tx_hash (under SpecLive).
C8_EveryBridgeCompletes ==
  \A h \in BurnHashes :
    [](h \in DOMAIN cctp_bridges
       => <>(Row(h).status = "completed" /\ Row(h).mint_tx_hash # NoHash))

\* C9: after a poll timeout, in bridge_usdc or in complete_bridge, the row has
\* status awaiting_attestation and is otherwise as it was.
PollTimedOut(p) ==
  /\ pc[p] = "done"
  /\ polled[p]
  /\ \/ /\ op[p] = "bridge_usdc"
        /\ result[p].kind = "ok"
        /\ result[p].value.status = "awaiting_attestation"
     \/ /\ op[p] = "complete_bridge"
        /\ result[p].error = "AttestationTimeout"

C9_TimeoutPersistsAwaiting ==
  \A p \in Procs :
    PollTimedOut(p)
    => ( /\ Row(burn_tx_hash[p]).status = "awaiting_attestation"
         /\ SameButStatus(Row(burn_tx_hash[p]), bridge[p]) )

\* C9 as amended: after a poll timeout the row is there, pending and otherwise
\* as it was, and complete_bridge will poll for it again; its status is
\* awaiting_attestation after complete_bridge and still burn_confirmed after
\* bridge_usdc, which only returns "awaiting_attestation".
C9_TimeoutKeepsProgress ==
  \A p \in Procs :
    PollTimedOut(p)
    => ( /\ Row(burn_tx_hash[p]).status =
              (IF op[p] = "complete_bridge" THEN "awaiting_attestation"
               ELSE "burn_confirmed")
         /\ SameButStatus(Row(burn_tx_hash[p]), bridge[p])
         /\ burn_tx_hash[p] \in list_pending_bridges(cctp_bridges)
         /\ complete_bridge_entry(Row(burn_tx_hash[p])) = "poll" )

C9_Witness ==
  \E p \in Procs :
    /\ PollTimedOut(p)
    /\ op[p] = "bridge_usdc"
    /\ Row(burn_tx_hash[p]).status = "burn_confirmed"

\* C10: when a mint transaction fails (it reverts, or waiting for it raises),
\* the row keeps status attestation_received, its attestation and its
\* message, and no mint_tx_hash; retry_mint then takes it to the mint without
\* polling and without burning, and completes it when its mint succeeds.
MintTxFailed(p) ==
  /\ pc[p] = "done"
  /\ submitted[p]
  /\ result[p].error \in {"MintFailed", "TimeExhausted"}

C10_MintFailureIsRetryable ==
  /\ [](\A p \in Procs :
          /\ MintTxFailed(p)
             => ( /\ Row(burn_tx_hash[p]).status = "attestation_received"
                  /\ Row(burn_tx_hash[p]).attestation # NULL
                  /\ Row(burn_tx_hash[p]).message_bytes # NULL
                  /\ Row(burn_tx_hash[p]).mint_tx_hash = NoHash
                  /\ retry_mint_entry(Row(burn_tx_hash[p])) = "nonce_check" )
          /\ op[p] = "retry_mint" => ~polled[p]
          /\ (pc[p] = "done" /\ op[p] = "retry_mint" /\ submitted[p]
              /\ result[p].kind = "ok")
             => ( /\ Row(burn_tx_hash[p]).status = "completed"
                  /\ Row(burn_tx_hash[p]).mint_tx_hash # NoHash
                  /\ Row(burn_tx_hash[p]).mint_tx_hash
                       = result[p].value.mint_tx_hash ))
  /\ [][\A p \in Procs : op[p] = "retry_mint" => burned' = burned]_vars

C10_Witness ==
  \E p \in Procs :
    /\ pc[p] = "done"
    /\ op[p] = "retry_mint"
    /\ result[p].kind = "ok"
    /\ submitted[p]
    /\ Len(mintTxs[burn_tx_hash[p]]) >= 2
    /\ mintTxs[burn_tx_hash[p]][1] = 0
    /\ Row(burn_tx_hash[p]).status = "completed"

\* C11: retry_mint on a row that is not completed and has no stored
\* attestation, or no stored message, raises NoStoredAttestation at once: no
\* poll of the attestation API, no transaction sent, no write to the store.
C11_NoStoredAttestation ==
  [][\A p \in Procs : \A h \in DOMAIN cctp_bridges :
       ( /\ pc[p] = "idle"
         /\ op'[p] = "retry_mint"
         /\ burn_tx_hash'[p] = h
         /\ Row(h).status # "completed"
         /\ (Row(h).attestation = NULL \/ Row(h).message_bytes = NULL) )
       => ( /\ pc'[p] = "done"
            /\ result'[p] = [kind |-> "error", error |-> "NoStoredAttestation",
                             value |-> NoBridge]
            /\ ~polled'[p]
            /\ ~submitted'[p]
            /\ UNCHANGED <<cctp_bridges, transactions, burned, mintTxs>> )]_vars

C11_Witness ==
  \E p \in Procs :
    /\ pc[p] = "done"
    /\ op[p] = "retry_mint"
    /\ result[p].error = "NoStoredAttestation"
    /\ bridge[p].attestation # NULL
    /\ bridge[p].message_bytes = NULL
    /\ Row(burn_tx_hash[p]) = bridge[p]

\* C12: when the approval or the burn of bridge_usdc reverts, the call raises
\* and cctp_bridges is as it was: no step of bridge_usdc up to and including
\* the burn receipt writes a row, and every row there is belongs to a burn
\* that confirmed.
LegReverted(p) ==
  /\ pc[p] = "done"
  /\ op[p] = "bridge_usdc"
  /\ result[p].error \in {"ApprovalFailed", "BurnFailed"}

C12_RevertLeavesNoRow ==
  /\ [](\A p \in Procs :
          /\ LegReverted(p) => result[p].kind = "error"
          /\ DOMAIN cctp_bridges \subseteq burned)
  /\ [][\A p \in Procs :
          pc[p] \in {"balance", "approve", "burn", "burn_receipt"}
          => cctp_bridges' = cctp_bridges]_vars

C12_Witness ==
  \E p \in Procs :
    /\ LegReverted(p)
    /\ result[p].error = "BurnFailed"
    /\ args[p].amount_usdc > 0
    /\ DOMAIN cctp_bridges # {}

\* C13: once a leg of a bridge has reverted (approval, burn or mint), the
\* transactions table holds a row with status failed for it.
LegFailed(p) ==
  /\ pc[p] = "done"
  /\ result[p].error \in {"ApprovalFailed", "BurnFailed", "MintFailed"}

C13_RevertIsRecorded ==
  \A p \in Procs :
    LegFailed(p)
    => \E i \in 1..Len(transactions) : transactions[i].status = "failed"

\* C14: bridge_usdc with source = dest or with an amount <= 0 raises at entry:
\* it never gets to the balance read, to a transaction, or to a store write.
C14_InvalidRejectedAtEntry ==
  \A p \in Procs :
    ( /\ op[p] = "bridge_usdc"
      /\ \/ args[p].source_chain = args[p].dest_chain
         \/ args[p].amount_usdc <= 0 )
    => ( /\ pc[p] = "done"
         /\ result[p].kind = "error"
         /\ result[p].error = "ValueError" )

\* ------------------------------------------------------------------------
\* Properties of the scanner (under SpecScan)
\* ------------------------------------------------------------------------
Mark(tbl) == get_high_water_mark(tbl, ScanKey)
NeverLowered ==
  /\ DOMAIN high_water_marks \subseteq DOMAIN high_water_marks'
  /\ Mark(high_water_marks') >= Mark(high_water_marks)
Returns == scan_pc # "done" /\ scan_pc' = "done"
BlocksOf(ts) == {t.block_number : t \in ts}

\* C15: no step of fetch_onchain_usdc_transfers, with or without from_block,
\* lowers or removes the stored mark (the chain head never decreases).
C15_FetchNeverLowersMark == [][scan_op = "fetch" => NeverLowered]_vars

C15_Witness ==
  /\ scan_pc = "done"
  /\ scan_op = "fetch"
  /\ from_block # NoBlock
  /\ from_block < current_block
  /\ max_block_seen < current_block
  /\ Mark(high_water_marks) = current_block

\* C16: no step of any scan, fetch_onchain_usdc_transfers or watch_incoming,
\* with or without from_block, lowers or removes the stored mark.
C16_MarkNeverLowered == [][NeverLowered]_vars

\* C17: a scan returns no transfer of a block at or below the mark stored
\* when it began.
C17_NothingAtOrBelowMark ==
  [][Returns => \A t \in transfers' :
                  t.block_number > Mark(high_water_marks)]_vars

\* C17 as amended: a scan without from_block returns no transfer of a block
\* at or below the mark stored when it began (a scan given a from_block
\* returns every transfer from that block on, marked or not).
C17_DefaultScanAboveMark ==
  [][(Returns /\ from_block' = NoBlock)
     => \A t \in transfers' : t.block_number > Mark(high_water_marks)]_vars

C17_Witness ==
  /\ scan_pc = "done"
  /\ scan_op = "fetch"
  /\ from_block = NoBlock
  /\ scan_from > 0
  /\ scan_from > current_block - DEFAULT_FIRST_RUN_LOOKBACK
  /\ transfers # {}
  /\ \E e \in logs : e.block_number < scan_from

\* C18: after a scan in which an event query raised, the mark is not past a
\* block of the scanned range with an event of that direction the scan did
\* not return.
C18_FailedQueryHoldsMark ==
  (scan_pc = "done" /\ scan_op = "fetch" /\ failed # {})
  => \A e \in logs :
       ( /\ e.direction \in failed
         /\ e.block_number >= scan_from
         /\ e.block_number <= Mark(high_water_marks) )
       => e \in transfers

\* C19: fetch_onchain_usdc_transfers starts at from_block if given, else one
\* past the stored mark, else max(0, head - lookback); when that is past the
\* head it returns no transfer, creates no event filter and leaves the mark.
C19_ScanStart ==
  [][(scan_pc = "idle" /\ scan_op' = "fetch")
     => LET start ==
              IF from_block' # NoBlock THEN from_block'
              ELSE IF ScanKey \in DOMAIN high_water_marks
                   THEN high_water_marks[ScanKey] + 1
              ELSE IF head > DEFAULT_FIRST_RUN_LOOKBACK
                   THEN head - DEFAULT_FIRST_RUN_LOOKBACK
              ELSE 0
        IN /\ scan_from' = start
           /\ start > head => ( /\ scan_pc' = "done"
                                /\ transfers' = {}
                                /\ queried' = {}
                                /\ high_water_marks' = high_water_marks )
           /\ start <= head => scan_pc' = "outgoing"]_vars

C19_Witness ==
  /\ scan_pc = "done"
  /\ scan_op = "fetch"
  /\ from_block = NoBlock
  /\ scan_from = Mark(high_water_marks) + 1
  /\ scan_from > current_block
  /\ queried = {}

\* C20: when fetch_onchain_usdc_transfers (update_hwm left at True, as every
\* scan of the command line and of reconcile has it) has scanned a range, the stored
\* mark is the greater of the head it read and the highest block of a
\* transfer it returned, also when it returned none; a scan without
\* from_block that then reads a head not past the mark returns nothing and
\* creates no event filter.
C20_MarkAfterScan ==
  /\ []((scan_pc = "done" /\ scan_op = "fetch" /\ update_hwm
         /\ scan_from <= current_block)
        => Mark(high_water_marks)
             = Max({current_block} \cup BlocksOf(transfers)))
  /\ [][( /\ scan_pc = "idle"
          /\ scan_op' = "fetch"
          /\ from_block' = NoBlock
          /\ ScanKey \in DOMAIN high_water_marks
          /\ head <= high_water_marks[ScanKey] )
        => ( /\ scan_pc' = "done"
             /\ transfers' = {}
             /\ queried' = {} )]_vars

C20_Witness ==
  /\ scan_pc = "done"
  /\ scan_op = "fetch"
  /\ update_hwm
  /\ scan_from < current_block
  /\ queried = Directions
  /\ failed = {}
  /\ transfers = {}
  /\ Mark(high_water_marks) = current_block

\* C21: no step of fetch_onchain_usdc_transfers changes the transactions, the
\* invoices or the bridges table; it changes nothing of the store but the mark of the
\* scanned pair, and not even that with update_hwm = False.
C21_FetchLeavesLedger ==
  [][(scan_op = "fetch" \/ scan_op' = "fetch")
     => ( /\ UNCHANGED <<transactions, invoices, cctp_bridges>>
          /\ \A k \in DOMAIN high_water_marks' :
               k # ScanKey => ( /\ k \in DOMAIN high_water_marks
                                /\ high_water_marks'[k] = high_water_marks[k] )
          /\ (scan_op = "fetch" /\ ~update_hwm)
             => high_water_marks' = high_water_marks )]_vars

C21_Witness ==
  /\ scan_pc = "done"
  /\ scan_op = "fetch"
  /\ ~update_hwm
  /\ transfers # {}
  /\ transactions # <<>>
  /\ Mark(high_water_marks) < current_block

\* the records of the scanned chain, and the logs the scan returned
Internal == internal_chain(internal_txs, ScanKey[1])
Logs(h) == {onchain_txs[i].log : i \in {j \in DOMAIN onchain_txs :
                                         onchain_txs[j].tx_hash = h}}
WithHash(seq, h) == Count(seq, LAMBDA x : x.tx_hash = h)

\* C22: in a finished report every internal record of the chain has one
\* entry, in matched_txs (as matched or as amount_mismatch) or in
\* unmatched_internal; every scanned Transfer log whose tx hash no internal
\* record has, has one entry in unmatched_onchain; the summary counts the
\* entries.
C22_ReportPartitions ==
  report_pc = "done" =>
    /\ \A h \in TxHashes :
         /\ WithHash(Internal, h)
              = WithHash(report.matched_txs, h)
                + WithHash(report.unmatched_internal, h)
         /\ WithHash(report.matched_txs, h) = 0
            \/ WithHash(report.unmatched_internal, h) = 0
         /\ WithHash(Internal, h) = 0
            => WithHash(report.unmatched_onchain, h) = Cardinality(Logs(h))
         /\ WithHash(Internal, h) > 0
            => WithHash(report.unmatched_onchain, h) = 0
    /\ report.summary.matched
         = Count(report.matched_txs, LAMBDA m : m.status = "matched")
    /\ report.summary.matched + report.summary.unmatched_internal
         = Len(Internal)
    /\ report.summary.unmatched_onchain = Len(report.unmatched_onchain)

\* C23: an internal record found on-chain is reported matched exactly when
\* its amount and the on-chain amount are the same number.
C23_MatchedIffSameValue ==
  report_pc = "done" =>
    \A i \in DOMAIN report.matched_txs :
      LET m == report.matched_txs[i] IN
      m.status = "matched"
        <=> Decimal(m.internal_amount) = Decimal(m.onchain_amount)

\* 2 ** k
RECURSIVE Pow2(_)
Pow2(k) == IF k = 0 THEN 1 ELSE 2 * Pow2(k - 1)

\* C24: from one wait of a call to the next, the delay does not go down as
\* long as it has not reached its bound (120 s once a 429 was answered).
C24_DelayNeverShrinks ==
  [][(poll_pc = "sleep" /\ poll_pc' = "loop" /\ wait_delay > 0
      /\ wait_delay < rate_limit_delay)
     => wait_delay' >= wait_delay]_vars

\* C25: the wait that follows a 429 uses min(3 x the delay in force when the
\* request was sent, 120).
C25_RateLimitTriples ==
  [][(poll_pc = "sleep" /\ poll_pc' = "loop" /\ response = "rate_limited")
     => wait_delay' = Min({3 * pre_delay, 120})]_vars

C25_Witness ==
  /\ poll_pc = "loop"
  /\ response = "rate_limited"
  /\ pre_delay = 8
  /\ wait_delay = 24

\* C26: without a 429 the k-th wait uses min(2 * 2^(k-1), 60); every sleep
\* is between delay and 1.3 x delay; the delay of a wait is at most 60
\* without a 429 and at most 120 with one.
C26_BackoffSchedule ==
  wait_delay > 0 =>
    /\ (~limited /\ poll_pc = "loop")
       => wait_delay = Min({2 * Pow2(attempt - 1), 60})
    /\ 10 * wait_delay <= sleep_time
    /\ sleep_time <= 13 * wait_delay
    /\ ~limited => wait_delay <= 60
    /\ wait_delay <= 120

C26_Witness ==
  /\ poll_pc = "loop"
  /\ wait_delay = 60
  /\ ~limited
  /\ attempt = 7
  /\ sleep_time = 780

\* C27: every call ends, with (None, None) unless a complete message was
\* answered and never with an exception; no attempt starts once max_wait has
\* elapsed; with max_wait <= 0 or an empty hash it ends without an attempt.
C27_PollTerminates ==
  /\ <>(poll_pc = "done")
  /\ [](poll_pc = "done" =>
          /\ poll_result \in {"none", "pair"}
          /\ poll_result = "pair" <=> response = "complete"
          /\ (max_wait <= 0 \/ poll_hash = "empty") => attempt = 0)
  /\ [](attempt > 0 => checked_at < 10 * max_wait)

C27_Witness ==
  /\ poll_pc = "done"
  /\ poll_result = "none"
  /\ attempt > 7
  /\ response = "RequestException"

\* the invoice a step of watch_incoming's loop matched, as it was before
Matched == invoices[incoming'.matched_invoice]
Worked == incoming' # NoIncoming
AutoMatched == Worked /\ incoming'.matched_invoice # NoInvoice
OpenReceivableFrom(inv, sender) ==
  /\ inv.invoice_type = "receivable"
  /\ inv.status \in {"pending", "partial"}
  /\ lower(inv.counterparty_address) = lower(sender)

\* C28: an invoice that an incoming transfer is matched to is a receivable,
\* pending or partial, of the transfer's chain, whose counterparty address is
\* the sender's up to case.
C28_MatchedIsOpenOnChain ==
  [][AutoMatched
     => ( /\ OpenReceivableFrom(Matched, incoming'.from_address)
          /\ Matched.chain = incoming'.chain )]_vars

\* the open receivables of the sender on the transfer's chain whose remaining
\* amount is at most d away from the transfer's amount
ExactFor(inc, d) ==
  {n \in DOMAIN invoices :
     /\ OpenReceivableFrom(invoices[n], inc.from_address)
     /\ invoices[n].chain = inc.chain
     /\ Abs(invoices[n].remaining_usdc - inc.amount_usdc) <= d}

NewRow == transactions'[Len(transactions')]

\* the transfer of this step goes to an invoice within d of it, if any
MatchingWithin(d) ==
  (Worked /\ ~incoming'.already_recorded) =>
    LET inc == incoming'
        m == inc.matched_invoice IN
    /\ Len(transactions') = Len(transactions) + 1
    /\ ExactFor(inc, d) # {} => m \in ExactFor(inc, d)
    /\ m # NoInvoice =>
         /\ invoices'[m].payments =
              Append(invoices[m].payments,
                     payment(inc.tx_hash, inc.amount_usdc))
         /\ invoices'[m].paid_usdc = invoices[m].paid_usdc + inc.amount_usdc
         /\ invoices'[m].paid_usdc = invoices'[m].total_usdc
            => invoices'[m].status = "paid"
         /\ \A n \in DOMAIN invoices : n # m => invoices'[n] = invoices[n]
         /\ NewRow.type = "incoming_payment"
         /\ NewRow.invoice_number = m
    /\ m = NoInvoice =>
         /\ invoices' = invoices
         /\ NewRow.type = "incoming"
         /\ \A n \in DOMAIN invoices :
              ~( /\ OpenReceivableFrom(invoices[n], inc.from_address)
                 /\ invoices[n].chain = inc.chain )

\* C29 as stated: an open receivable of the sender on the transfer's chain
\* whose remaining amount is within 0.01 of the transfer's amount (0.01
\* included) takes the transfer before any other invoice; it gets one
\* payment entry, is paid when paid = total, and no uncategorized incoming
\* row is written; such a row is written only when no invoice matches.
C29_WithinTolerance == [][MatchingWithin(Tolerance)]_vars

\* C29, amended: the same for a remaining amount less than 0.01 away.
C29_BelowTolerance == [][MatchingWithin(Tolerance - 1)]_vars

C29_Witness ==
  /\ incoming.matched_invoice = 1
  /\ Len(invoices) = 2
  /\ OpenReceivableFrom([invoices[2] EXCEPT !.status = "pending"],
                        incoming.from_address)
  /\ invoices[2].chain = incoming.chain
  /\ invoices[2].status = "pending"
  /\ invoices[1].status = "paid"
  /\ invoices[1].payments = <<payment(incoming.tx_hash, incoming.amount_usdc)>>
  /\ invoices[1].total_usdc = incoming.amount_usdc

StatusOfTotals(inv) ==
  IF inv.paid_usdc = 0 THEN "pending"
  ELSE IF inv.paid_usdc < inv.total_usdc THEN "partial"
  ELSE IF inv.paid_usdc = inv.total_usdc THEN "paid"
  ELSE "overpaid"

\* C30: an invoice that is not cancelled has the status its totals give it; a
\* cancelled invoice has nothing paid, and no operation changes it.
C30_StatusFromTotals ==
  /\ [](\A n \in DOMAIN invoices :
          /\ invoices[n].status # "cancelled"
             => invoices[n].status = StatusOfTotals(invoices[n])
          /\ invoices[n].status = "cancelled"
             => (invoices[n].paid_usdc = 0 /\ invoices[n].payments = <<>>))
  /\ [][\A n \in DOMAIN invoices :
          invoices[n].status = "cancelled" => invoices'[n] = invoices[n]]_vars

C30_Witness ==
  /\ Len(invoices) = 2
  /\ invoices[1].status = "overpaid"
  /\ Len(invoices[1].payments) = 2
  /\ invoices[2].status = "cancelled"
  /\ incoming.matched_invoice = 1

\* C32: whenever no handler is running, every row of cctp_bridges has exactly
\* one burn leg in transactions (tx_hash = its burn hash), and exactly one
\* mint leg linked to its burn hash if its status is completed and none
\* otherwise.
BurnLegsOf(h) ==
  {i \in 1..Len(transactions) :
     transactions[i].type = "cctp_bridge" /\ transactions[i].tx_hash = h}
MintLegsOf(h) ==
  {i \in 1..Len(transactions) :
     transactions[i].type = "cctp_mint" /\ transactions[i].cctp_burn_tx = h}
C32_LegsFollowRows ==
  Quiet =>
    \A h \in DOMAIN cctp_bridges :
      /\ Cardinality(BurnLegsOf(h)) = 1
      /\ Cardinality(MintLegsOf(h)) =
           IF cctp_bridges[h].status = "completed" THEN 1 ELSE 0

\* C34: once the mint for a burn has confirmed on the destination chain while
\* the row is not completed, later complete_bridge / retry_mint calls
\* eventually store status completed, so the row leaves list_pending_bridges
\* (under SpecLive).
MintedUnrecorded(h) ==
  /\ usedNonces(h)
  /\ h \in list_pending_bridges(cctp_bridges)
C34_MintedRowCompletes ==
  \A h \in BurnHashes :
    MintedUnrecorded(h) ~> (h \notin list_pending_bridges(cctp_bridges))

\* C36: a row whose stored status is attestation_received has both its
\* attestation and its message_bytes stored, so retry_mint on it never raises
\* NoStoredAttestation.
C36_ReceivedHasMessage ==
  \A h \in DOMAIN cctp_bridges :
    cctp_bridges[h].status = "attestation_received"
      => /\ cctp_bridges[h].attestation # NULL
         /\ cctp_bridges[h].message_bytes # NULL

\* C37: the mark shared by the scanner and watch_incoming loses no incoming
\* payment: when a default watch_incoming has returned without a failure,
\* every incoming transfer mined after the first-run lookback start and at or
\* below the stored mark has a row in transactions (under SpecDefaultScans).
\* No first run starts above LatestLookbackStart.
LatestLookbackStart == Max({0, MaxBlock - DEFAULT_FIRST_RUN_LOOKBACK})
InLedger(e) ==
  \E i \in 1..Len(transactions) : transactions[i].tx_hash = e.tx_hash
C37_MarkedIncomingRecorded ==
  (scan_op = "watch" /\ scan_pc = "done" /\ failed = {})
    => \A e \in logs :
         ( /\ e.direction = "incoming"
           /\ e.block_number > LatestLookbackStart
           /\ e.block_number <= Mark(high_water_marks) )
         => InLedger(e)

\* C38: default scans without a failing query miss nothing at or below the
\* mark they store, whatever is mined while a scan runs: when a scan returns,
\* every Transfer event of a block from its scan_from up to the stored mark is
\* among the transfers it returns (later scans start above that mark, earlier
\* ones ended below scan_from) (under SpecDefaultScans).
C38_ScanCoversItsBlocks ==
  (scan_op = "fetch" /\ scan_pc = "done")
    => \A e \in logs :
         (e.block_number >= scan_from /\ e.block_number <= Mark(high_water_marks))
         => e \in transfers

\* C39: after any sequence of create_invoice, pay_invoice (with a good or a
\* reverted receipt), cancel_invoice and auto-matched incoming payments, every
\* invoice has paid_usdc equal to the sum of its confirmed payments and
\* remaining_usdc equal to total_usdc - paid_usdc, so every check reconcile
\* reports is ok; and reconcile's verification leaves the invoices as they
\* were.
TotalsAddUp ==
  \A n \in DOMAIN invoices :
    /\ invoices[n].paid_usdc = payment_total(invoices[n].payments)
    /\ invoices[n].remaining_usdc = invoices[n].total_usdc - invoices[n].paid_usdc
NoDiscrepancy ==
  \A ck \in Chains : \A k \in DOMAIN invoice_checks[ck] :
    invoice_checks[ck][k].status = "ok"
C39_InvoiceTotalsAddUp ==
  /\ [](TotalsAddUp /\ NoDiscrepancy)
  /\ [][invoice_checks' # NoChecks => invoices' = invoices]_vars

C39_Witness ==
  /\ \E ck \in Chains : \E k \in DOMAIN invoice_checks[ck] :
       LET n == invoice_checks[ck][k].invoice_number IN
       /\ invoices[n].paid_usdc > 0
       /\ Len(invoices[n].payments) > 0
  /\ \E i \in DOMAIN transactions : transactions[i].status = "failed"

\* C35: an incoming transfer is applied to invoices at most once, whatever
\* watch_incoming calls see it again (from an explicit from_block, or from a
\* mark a killed call did not advance): over all invoices there is at most
\* one payment entry with its tx hash (under SpecWatch).
PaymentsOf(h) ==
  {<<n, i>> \in (DOMAIN invoices) \X (1..MaxLedger + MaxEvents) :
     i <= Len(invoices[n].payments) /\ invoices[n].payments[i].tx_hash = h}
C35_AppliedAtMostOnce ==
  \A e \in logs : Cardinality(PaymentsOf(e.tx_hash)) <= 1

\* C31: a store operation that raises inside its unit of work leaves the
\* stored row as it was, and the fields of one update_bridge or
\* update_invoice are stored all or none: every step, a kill or a rollback
\* included, leaves each stored row either as it was or with every column of
\* the update the unit carries, which then names known columns only (under
\* SpecStore).
FullyApplied(old, new, updates, columns) ==
  /\ DOMAIN updates \subseteq columns
  /\ \A c \in DOMAIN old :
       new[c] = IF c \in DOMAIN updates THEN updates[c] ELSE old[c]
C31_UpdatesAreAtomic ==
  [][ /\ \A h \in DOMAIN cctp_bridges :
           \/ cctp_bridges'[h] = cctp_bridges[h]
           \/ /\ unit.table = "cctp_bridges"
              /\ unit.burn_tx_hash = h
              /\ FullyApplied(cctp_bridges[h], cctp_bridges'[h], unit.updates,
                              _BRIDGE_COLUMNS)
      /\ \A n \in DOMAIN invoices :
           \/ invoices'[n] = invoices[n]
           \/ /\ unit.table = "invoices"
              /\ unit.invoice_number = n
              /\ FullyApplied(invoices[n], invoices'[n], unit.updates,
                              _INVOICE_COLUMNS) ]_vars

\* update_bridge was given status = completed with an unknown column, on a
\* row that is not completed, and has raised
C31_Witness ==
  /\ unit.pc = "done"
  /\ unit.error = "ValueError"
  /\ unit.table = "cctp_bridges"
  /\ unit.burn_tx_hash \in DOMAIN cctp_bridges
  /\ "status" \in DOMAIN unit.updates
  /\ cctp_bridges[unit.burn_tx_hash].status = "attestation_received"
  /\ cctp_bridges[unit.burn_tx_hash].attestation = "att"

\* C33: next_counter never gives a number twice: a call returns a value above
\* the stored one and stores it, the stored value never goes down, and every
\* number a process holds or an invoice carries is at most the stored value;
\* so no two invoices share a number and no two processes hold the same one,
\* also when create_invoice raises on the total after taking its number
\* (under SpecCounter).
Stored == counter_value(counters, CounterKey)
NumbersDistinct ==
  /\ \A i, j \in DOMAIN invoices :
       invoices[i].invoice_number = invoices[j].invoice_number => i = j
  /\ \A p, q \in CounterProcs :
       (inv_num[p] # NoInvoice /\ inv_num[p] = inv_num[q]) => p = q
  /\ \A p \in CounterProcs : \A i \in DOMAIN invoices :
       (ctr_pc[p] = "validate") => invoices[i].invoice_number # inv_num[p]
  /\ \A p \in CounterProcs : inv_num[p] <= Stored
  /\ \A i \in DOMAIN invoices : invoices[i].invoice_number <= Stored
C33_NumbersNeverReused ==
  /\ []NumbersDistinct
  /\ [][ /\ Stored' >= Stored
         /\ \A p \in CounterProcs :
              (inv_num'[p] # NoInvoice /\ inv_num'[p] # inv_num[p])
                => (inv_num'[p] > Stored /\ inv_num'[p] = Stored') ]_vars

\* two invoices are stored, and a number between or before theirs was taken by
\* a call that raised on its total or was killed
C33_Witness ==
  /\ Len(invoices) = 2
  /\ invoices[1].invoice_number + 1 < invoices[2].invoice_number

\* C40: when two complete_bridge / retry_mint invocations for one burn hash
\* run at the same time, at most one of them sends a receiveMessage
\* transaction, and a row that has status completed keeps it, whatever the
\* other invocation writes (under SpecPair).
Resuming(p, h) ==
  /\ op[p] \in {"complete_bridge", "retry_mint"}
  /\ burn_tx_hash[p] = h
  /\ pc[p] \notin {"idle", "done"}
C40_OneMintNoRegress ==
  /\ [](\A h \in BurnHashes : \A p, q \in Procs :
          (p # q /\ Resuming(p, h) /\ Resuming(q, h))
            => ~(submitted[p] /\ submitted[q]))
  /\ [][\A h \in DOMAIN cctp_bridges :
          cctp_bridges[h].status = "completed"
            => cctp_bridges'[h].status = "completed"]_vars

====
